----------------------------- MODULE CaptureInbox -----------------------------
(***************************************************************************)
(* The capture inbox of capture/store.py: a host submits requests, each a  *)
(* step of its source's cursor with a batch of events.  A request becomes  *)
(* one candidate per event, an envelope that binds them, and an advanced   *)
(* checkpoint, written in this order as separate files under the writer    *)
(* lock.  The command may stop between any two of them.                    *)
(*                                                                         *)
(* Identities are digests of contents, so an envelope is its request, and  *)
(* a candidate is the event of the request that it was derived from.       *)
(***************************************************************************)
EXTENDS Naturals, FiniteSets

CONSTANTS
  Sources,      \* declared sources
  Cursors,      \* cursor values
  NoCursor,     \* the null cursor of a source's first request
  Events,       \* event ids
  Captures,     \* the requests that the hosts submit
  NoRequest,    \* no request, no checkpoint
  ReplayFirst,  \* do operators replay an interrupted request before another?
  MaxFaults     \* bound on commands cut short

RequestType ==
  [source : Sources, before : Cursors \cup {NoCursor}, after : Cursors,
   events : (SUBSET Events) \ {{}}]

\* _validate_request: a cursor must advance.
ASSUME CaptureAssumption ==
  /\ NoCursor \notin Cursors
  /\ Captures \subseteq {rq \in RequestType : rq.before # rq.after}
  /\ NoRequest \notin RequestType
  /\ ReplayFirst \in BOOLEAN
  /\ MaxFaults \in Nat

VARIABLES
  envelopes,   \* CAP-<request>.json
  checkpoint,  \* CPT-<source>.json: the request it was written for
  candidates,  \* CND-<request, event>.json
  pc,          \* where the command that holds the lock stands
  cur,         \* its request
  left,        \* the events it has still to persist
  owed,        \* by source, the request that was cut short and not yet replayed
  faults       \* commands cut short so far

vars == <<envelopes, checkpoint, candidates, pc, cur, left, owed, faults>>

TypeOK ==
  /\ envelopes \subseteq Captures
  /\ checkpoint \in [Sources -> Captures \cup {NoRequest}]
  /\ candidates \subseteq Captures \X Events
  /\ pc \in {"idle", "persist", "checkpoint"}
  /\ cur \in Captures \cup {NoRequest}
  /\ left \subseteq Events
  /\ owed \in [Sources -> Captures \cup {NoRequest}]
  /\ faults \in 0..MaxFaults

Init ==
  /\ envelopes = {} /\ candidates = {}
  /\ checkpoint = [s \in Sources |-> NoRequest]
  /\ pc = "idle" /\ cur = NoRequest /\ left = {}
  /\ owed = [s \in Sources |-> NoRequest]
  /\ faults = 0

-----------------------------------------------------------------------------
(* ingest_capture_request                                                  *)

\* The cursor that the source's checkpoint is at.
CursorOf(s) == IF checkpoint[s] = NoRequest THEN NoCursor ELSE checkpoint[s].after

\* A request is taken at its cursor, or again at any later one.  The first
\* mutant refuses one whose envelope exists, the second checks no cursor.
Accepts_NotTwice(rq) == CursorOf(rq.source) = rq.before /\ rq \notin envelopes
Accepts_AnyCursor(rq) == TRUE
Accepts(rq) == CursorOf(rq.source) = rq.before \/ rq \in envelopes

\* What the host or its operator does after a request was cut short.
Submitted(rq) == ReplayFirst => owed[rq.source] \in {NoRequest, rq}

Begin(rq) ==
  /\ pc = "idle"
  /\ Submitted(rq)
  /\ Accepts(rq)
  /\ pc' = "persist" /\ cur' = rq /\ left' = rq.events
  /\ UNCHANGED <<envelopes, checkpoint, candidates, owed, faults>>

\* A candidate that exists already is left as it is.
PersistCandidate(e) ==
  /\ pc = "persist"
  /\ e \in left
  /\ left' = left \ {e}
  /\ candidates' = candidates \cup {<<cur, e>>}
  /\ UNCHANGED <<envelopes, checkpoint, pc, cur, owed, faults>>

WriteEnvelope ==
  /\ pc = "persist"
  /\ left = {}
  /\ envelopes' = envelopes \cup {cur}
  /\ pc' = "checkpoint"
  /\ UNCHANGED <<checkpoint, candidates, cur, left, owed, faults>>

\* Only a request at the cursor moves the checkpoint.  The first mutant lets a
\* replay move it too; the second writes it for a source that has none only.
Advanced_Always == TRUE
Advanced_FirstOnly == checkpoint[cur.source] = NoRequest
Advanced == CursorOf(cur.source) = cur.before

WriteCheckpoint ==
  /\ pc = "checkpoint"
  /\ checkpoint' = IF Advanced THEN [checkpoint EXCEPT ![cur.source] = cur] ELSE checkpoint
  /\ owed' = [owed EXCEPT ![cur.source] = IF @ = cur THEN NoRequest ELSE @]
  /\ pc' = "idle" /\ cur' = NoRequest /\ left' = {}
  /\ UNCHANGED <<envelopes, candidates, faults>>

\* The process dies or a write fails; a dead process's lock is recovered.
CutShort ==
  /\ pc # "idle"
  /\ faults < MaxFaults /\ faults' = faults + 1
  /\ owed' = [owed EXCEPT ![cur.source] = cur]
  /\ pc' = "idle" /\ cur' = NoRequest /\ left' = {}
  /\ UNCHANGED <<envelopes, checkpoint, candidates>>

Progress == (\E e \in Events : PersistCandidate(e)) \/ WriteEnvelope \/ WriteCheckpoint

Next == (\E rq \in Captures : Begin(rq)) \/ Progress \/ CutShort

Spec == Init /\ [][Next]_vars

(***************************************************************************)
(* A command that is not cut short runs to its end, and operators replay   *)
(* what audit-capture reports, whoever else uses the lock.                 *)
(***************************************************************************)
Replay(s) == owed[s] # NoRequest /\ Begin(owed[s])

Fairness == WF_vars(Progress) /\ \A s \in Sources : SF_vars(Replay(s))

FairSpec == Spec /\ Fairness

-----------------------------------------------------------------------------
(* audit-capture                                                           *)

EnvelopesOf(s) == {rq \in envelopes : rq.source = s}

\* The walk of _audit_chains from the null cursor meets every envelope once and
\* ends at the one the checkpoint names.
IsChain(s, q) ==
  LET n == Cardinality(EnvelopesOf(s)) IN
  /\ \A i, j \in 1..n : i # j => q[i] # q[j] /\ q[i].before # q[j].before
  /\ q[1].before = NoCursor
  /\ \A i \in 2..n : q[i].before = q[i - 1].after
  /\ \A i \in 1..n : q[i].before # q[n].after
  /\ checkpoint[s] = q[n]

ChainIsLinear(s) ==
  IF EnvelopesOf(s) = {}
  THEN checkpoint[s] = NoRequest
  ELSE \E q \in [1..Cardinality(EnvelopesOf(s)) -> EnvelopesOf(s)] : IsChain(s, q)

NoOrphans(s) == \A c \in candidates : c[1].source = s => c[1] \in envelopes

-----------------------------------------------------------------------------
(* Properties                                                              *)

\* With no interrupted request left to replay, the envelopes of every source
\* are one chain from the null cursor to the checkpoint, and no candidate
\* refers to an envelope that is not there: what audit-capture checks of the
\* artifacts.  (It also reports the temporary file of a write that died, which
\* no command removes; that is outside this property.)
ChainsAreLinear ==
  pc = "idle" =>
    \A s \in Sources : owed[s] = NoRequest => ChainIsLinear(s) /\ NoOrphans(s)

\* At any time, an artifact on disk refers only to artifacts on disk: the
\* checkpoint to its envelope, an envelope to its candidates.
References ==
  /\ \A s \in Sources : checkpoint[s] # NoRequest => checkpoint[s] \in envelopes
  /\ \A rq \in envelopes, e \in Events : e \in rq.events => <<rq, e>> \in candidates

\* A checkpoint moves only from a cursor to the request that starts there: a
\* late or repeated request never takes a source back.
CheckpointAdvances ==
  [][\A s \in Sources :
       checkpoint'[s] # checkpoint[s] =>
         checkpoint'[s] # NoRequest /\ checkpoint'[s].before = CursorOf(s)]_vars

\* Replaying an interrupted request finishes it.
InterruptedIsFinished == \A s \in Sources : owed[s] # NoRequest ~> owed[s] = NoRequest

\* docs/architecture.md: a linear checkpoint prevents cursor forks.  It does as
\* long as what was interrupted is replayed before a rival is submitted.
NoFork == \A p, q \in envelopes : p.source = q.source /\ p.before = q.before => p = q
=============================================================================
