----------------------------- MODULE CodexBridge -----------------------------
(***************************************************************************)
(* The Codex host bridge (adapters/codex_bridge.py, adapters/codex.py and  *)
(* authorize_effect of policy/pack.py).  Preparing a session compiles a    *)
(* context, stores it and writes the session; recording an observation     *)
(* loads the session, appends the host's receipt and evaluation to the     *)
(* orchestration ledger and writes the observation: three critical         *)
(* sections of the writer lock each, between which other commands run and  *)
(* the process may die.  A host sends the same report again until it gets  *)
(* an answer.                                                              *)
(*                                                                         *)
(* A digest is equal exactly when its contents are: a session carries its  *)
(* context, a receipt its session, an observation its documents.           *)
(***************************************************************************)
EXTENDS ContextIndex

CONSTANTS
  DocIds,     \* document ids
  Preparers,  \* calls of prepare_codex_session
  SessionAsks,  \* what each of them may ask for
  Hosts,      \* processes that call record_codex_observation
  Reports,    \* what each of them may report of a session
  Effects,
  Approvals,  \* references to a human's approval
  Policy,     \* the policy pack
  NoBundle, NoCall,
  MaxCrashes  \* bound on calls that die or lose the writer lock on their way

VARIABLES
  contexts,      \* continuity/contexts
  episodes,      \* the orchestration and workflow ledgers
  sessions,      \* adapters/codex/sessions
  observations,  \* adapters/codex/observations
  pc,            \* where each call stands
  compiled,      \* the request and the bundle that each preparer holds in memory
  call,          \* the report that each host is sending
  crashes

evidence == <<contexts, episodes, sessions, observations>>
calls == <<pc, compiled, call>>
vars == <<indexVars, evidence, calls, crashes>>

E == INSTANCE EpisodeLedgers WITH
  Contexts <- BundleType, Submissions <- [l \in {"orchestration", "workflow"} |-> {}]

SessionRequest ==
  [query : Queries, role : STRING, effects : SUBSET Effects,
   approvals : UNION {[A -> Approvals] : A \in SUBSET Effects},
   task : [id : DocIds, kind : {"task"}, manifest : DocIds, dependencies : SUBSET DocIds,
           required : SUBSET STRING, risk : 0..3, outputs : SUBSET STRING],
   manifest : E!ManifestType,
   worker : [id : DocIds, kind : {"worker"}, role : STRING, adapter : STRING,
             capabilities : SUBSET STRING, ceiling : 0..3]]

\* A receipt's effects and approvals are by effect.
ReportType ==
  [id : DocIds, status : {"succeeded", "failed"}, outputs : SUBSET STRING,
   effects : UNION {[A -> {"succeeded", "failed", "denied"}] : A \in SUBSET Effects},
   approvals : UNION {[A -> Approvals \cup {None}] : A \in SUBSET Effects},
   evaluation : DocIds, outcome : {"pass", "fail"}, observer : STRING]

ASSUME BridgeAssumption ==
  /\ Preparers \cap Hosts = {}
  /\ SessionAsks \in [Preparers -> SUBSET SessionRequest]
  /\ Reports \in [Hosts -> SUBSET ReportType]
  /\ Policy.human \subseteq Effects
  /\ \A role \in DOMAIN Policy.allowed : Policy.allowed[role] \subseteq Effects
  /\ MaxCrashes \in Nat

Stages == {"idle", "compiled", "stored", "done", "loaded", "appended", "calling"}

SessionType ==
  [request : SessionRequest, context : BundleType, ready : BOOLEAN,
   allowed_effects : SUBSET Effects,
   decisions : UNION {[A -> [allowed : BOOLEAN, requires_human : BOOLEAN,
                             approval : Approvals \cup {None}]] : A \in SUBSET Effects}]

TypeOK ==
  /\ store \in Stores /\ batch \in Stores \cup {NoBatch}
  /\ config \in Configs
  /\ index # NoIndex => index.config \in Configs /\ index.snapshot.store \in Stores
  /\ committed \subseteq Stores
  /\ contexts \subseteq BundleType
  /\ DOMAIN episodes = E!Ledgers
  /\ \A l \in E!Ledgers : \A d \in E!Stored(l) : d.id \in DocIds
  /\ sessions \subseteq SessionType
  /\ pc \in [Preparers \cup Hosts -> Stages]
  /\ compiled \in [Preparers -> {NoBundle} \cup [request : SessionRequest, bundle : BundleType]]
  /\ changes \in 0..MaxChanges /\ crashes \in 0..MaxCrashes

Init ==
  /\ IndexInit
  /\ E!EvidenceInit
  /\ sessions = {} /\ observations = {}
  /\ pc = [c \in Preparers \cup Hosts |-> "idle"]
  /\ compiled = [p \in Preparers |-> NoBundle]
  /\ call = [h \in Hosts |-> NoCall]
  /\ crashes = 0

Step(c, from, to) == pc[c] = from /\ pc' = [pc EXCEPT ![c] = to]

-----------------------------------------------------------------------------
(* Sessions                                                                *)

\* authorize_effect.
Decision(rq, e) ==
  [allowed |-> /\ rq.role \in DOMAIN Policy.allowed
               /\ e \in Policy.allowed[rq.role]
               /\ e \in Policy.human => e \in DOMAIN rq.approvals,
   requires_human |-> e \in Policy.human,
   approval |-> IF e \in DOMAIN rq.approvals THEN rq.approvals[e] ELSE None]

\* _validate_bound_documents, with route_task's condition on the one worker.
DocumentsAreBound(rq) ==
  /\ rq.manifest.task = rq.task.id /\ rq.task.manifest = rq.manifest.id
  /\ rq.worker.adapter = "codex"
  /\ rq.task.risk <= rq.worker.ceiling
  /\ rq.task.required \subseteq rq.worker.capabilities

RequestIsValid(rq) ==
  /\ DocumentsAreBound(rq)
  /\ rq.role \in Roles \cap DOMAIN Policy.allowed
  /\ rq.worker.role = rq.role
  /\ DOMAIN rq.approvals \subseteq rq.effects \cap Policy.human

Session(rq, bundle) ==
  LET decisions == [e \in rq.effects |-> Decision(rq, e)]
      allowed == {e \in rq.effects : decisions[e].allowed}
  IN [request |-> rq, context |-> bundle, decisions |-> decisions,
      ready |-> allowed = rq.effects, allowed_effects |-> allowed]

\* _validate_session.
SessionIsValid(s) ==
  /\ DocumentsAreBound(s.request)
  /\ DOMAIN s.decisions = s.request.effects
  /\ s.allowed_effects = {e \in s.request.effects : s.decisions[e].allowed}
  /\ s.ready = (s.allowed_effects = s.request.effects)

-----------------------------------------------------------------------------
(* prepare_codex_session                                                   *)

\* compile_context, under the writer lock, for a request whose documents and
\* approvals are in order.
Compile(p, rq) ==
  LET snapshot == LoadSnapshot(rq.query.as_of)
  IN /\ RequestIsValid(rq)
     /\ snapshot # NoSnapshot
     /\ Step(p, "idle", "compiled")
     /\ compiled' = [compiled EXCEPT ![p] = [request |-> rq, bundle |-> Bundle(snapshot, rq.query)]]
     /\ UNCHANGED <<indexVars, evidence, call, crashes>>

\* store_context_bundle: a bundle of this digest is stored once.
StoreBundle(p) ==
  /\ Step(p, "compiled", "stored")
  /\ \/ E!StoreContext(compiled[p].bundle)
     \/ compiled[p].bundle \in contexts /\ UNCHANGED <<contexts, episodes>>
  /\ UNCHANGED <<indexVars, sessions, observations, compiled, call, crashes>>

WriteSession(p) ==
  /\ Step(p, "stored", "done")
  /\ sessions' = sessions \cup {Session(compiled[p].request, compiled[p].bundle)}
  /\ compiled' = [compiled EXCEPT ![p] = NoBundle]
  /\ UNCHANGED <<indexVars, contexts, episodes, observations, call, crashes>>

-----------------------------------------------------------------------------
(* record_codex_observation                                                *)

ReceiptOf(s, t) ==
  [id |-> t.id, kind |-> "execution_receipt", session |-> s, task |-> s.request.task.id,
   worker |-> s.request.worker.id, manifest |-> s.request.manifest, context |-> s.context,
   status |-> t.status, effects |-> t.effects, approvals |-> t.approvals,
   outputs |-> t.outputs]

EvaluationOf(t) ==
  [id |-> t.evaluation, kind |-> "evaluation", receipt |-> t.id, outcome |-> t.outcome]

\* The call names one session; its receipt may be of another.
Report(s, executed, t) ==
  [session |-> s, receipt |-> ReceiptOf(executed, t), evaluation |-> EvaluationOf(t),
   observer |-> t.observer]

\* _validate_observed_documents.
ReportIsValid(s, r, e) ==
  LET rq == s.request IN
  /\ r.session = s /\ r.task = rq.task.id /\ r.worker = rq.worker.id
  /\ r.manifest = rq.manifest /\ r.context = s.context
  /\ e.receipt = r.id
  /\ DOMAIN r.effects = rq.effects
  /\ \A x \in rq.effects :
       /\ r.approvals[x] = s.decisions[x].approval
       /\ r.effects[x] = "succeeded" => s.decisions[x].allowed
  /\ r.outputs \subseteq rq.task.outputs
  /\ r.status = "succeeded" => r.outputs = rq.task.outputs

\* The session is read under the lock, its report checked without.
LoadSession(h, c) ==
  /\ c.session \in sessions
  /\ ReportIsValid(c.session, c.receipt, c.evaluation)
  /\ pc' = [pc EXCEPT ![h] = "loaded"]
  /\ call' = [call EXCEPT ![h] = c]
  /\ UNCHANGED <<indexVars, evidence, compiled, crashes>>

\* The call returns, with an answer or an error.
Answer(h, from) == Step(h, from, "idle") /\ call' = [call EXCEPT ![h] = NoCall]

EvidenceIn(c) ==
  {c.session.request.task, c.session.request.manifest, c.session.request.worker,
   c.receipt, c.evaluation}

\* append_orchestration_documents, which has nothing to write when all is there.
\* The mutant takes that for an error.
AppendEvidence_NotAgain(h) ==
  LET new == EvidenceIn(call[h]) all == E!Stored("orchestration") \cup new IN
  /\ \/ /\ Step(h, "loaded", "appended") /\ UNCHANGED call
        /\ E!AppendEpisode("orchestration", new)
     \/ /\ Answer(h, "loaded")
        /\ \/ new \subseteq E!Stored("orchestration")
           \/ ~(E!Unique(all) /\ E!Audited("orchestration", all))
        /\ UNCHANGED <<contexts, episodes>>
  /\ UNCHANGED <<indexVars, sessions, observations, compiled, crashes>>

AppendEvidence(h) ==
  LET new == EvidenceIn(call[h]) all == E!Stored("orchestration") \cup new IN
  /\ \/ /\ Step(h, "loaded", "appended") /\ UNCHANGED call
        /\ \/ E!AppendEpisode("orchestration", new)
           \/ new \subseteq E!Stored("orchestration") /\ UNCHANGED <<contexts, episodes>>
     \/ /\ Answer(h, "loaded")
        /\ ~(E!Unique(all) /\ E!Audited("orchestration", all))
        /\ UNCHANGED <<contexts, episodes>>
  /\ UNCHANGED <<indexVars, sessions, observations, compiled, crashes>>

\* The mutant does not look for another observation of the receipt.
WriteObservation_Unseen(h) ==
  /\ Answer(h, "appended")
  /\ observations' = observations \cup {call[h]}
  /\ UNCHANGED <<indexVars, contexts, episodes, sessions, compiled, crashes>>

WriteObservation(h) ==
  LET rivals == {o \in observations \ {call[h]} : o.receipt.id = call[h].receipt.id} IN
  /\ Answer(h, "appended")
  /\ observations' = observations \cup (IF rivals = {} THEN {call[h]} ELSE {})
  /\ UNCHANGED <<indexVars, contexts, episodes, sessions, compiled, crashes>>

\* The call dies, or does not get the writer lock, between two sections, and is
\* made again.
Cut(h) ==
  /\ crashes < MaxCrashes /\ crashes' = crashes + 1
  /\ Step(h, "loaded", "calling") \/ Step(h, "appended", "calling")
  /\ UNCHANGED <<indexVars, evidence, compiled, call>>

-----------------------------------------------------------------------------
Prepare(p) ==
  \/ \E rq \in SessionAsks[p] : Compile(p, rq)
  \/ StoreBundle(p) \/ WriteSession(p)
Observe(h) ==
  \/ pc[h] = "calling" /\ LoadSession(h, call[h])
  \/ AppendEvidence(h) \/ WriteObservation(h)

Next ==
  \/ RepositoryNext /\ UNCHANGED <<evidence, calls, crashes>>
  \/ \E p \in Preparers : Prepare(p)
  \/ \E h \in Hosts, s, executed \in sessions : \E t \in Reports[h] :
       pc[h] = "idle" /\ LoadSession(h, Report(s, executed, t))
  \/ \E h \in Hosts : Observe(h)
  \/ \E h \in Hosts : Cut(h)

\* A host that has begun to report goes on, from the start when it was cut off; a
\* preparation may stop anywhere.
Fairness == \A h \in Hosts : WF_vars(Observe(h))

Spec == Init /\ [][Next]_vars /\ Fairness

-----------------------------------------------------------------------------
(* Properties                                                              *)

\* No context is compiled from a batch that was not committed, not even in part,
\* by scan or by index, whatever happens between compiling and storing it.
ContextsAreCommitted == \A b \in contexts : b.snapshot \in committed

\* Every stored bundle keeps to its budget, accounts for every record of its
\* snapshot, and leaves out nothing that would fit.
BundlesKeepBudget == \A b \in contexts : KeepsBudget(b)

\* Every stored bundle is chosen, best first, from exactly the records that its
\* query reaches.
RelationsAreFollowed == \A b \in contexts : FollowsRelations(b)

\* After every step audit_codex_bridge finds nothing wrong with what it reads:
\* each session is in order and its context stored; each observation is of a
\* session, agrees with the documents that the ledger has under its ids and with
\* what the policy allowed, and is the only one of its receipt.  (A write that died leaves its temporary file, which
\* the audit also reports; it is outside this property.)
BridgeAuditPasses ==
  LET ledger == E!Stored("orchestration") IN
  /\ \A s \in sessions : SessionIsValid(s) /\ s.context \in contexts
  /\ \A o \in observations :
       /\ o.session \in sessions
       /\ {d \in ledger : d.id = o.receipt.id} = {o.receipt}
       /\ {d \in ledger : d.id = o.evaluation.id} = {o.evaluation}
       /\ ReportIsValid(o.session, o.receipt, o.evaluation)
       /\ \A p \in observations \ {o} : p.receipt.id # o.receipt.id

\* A receipt that has reached the ledger gets its observation, though the call
\* that brought it be cut off before it could write one.
InterruptedIsObserved ==
  \A h \in Hosts : \A id \in {t.id : t \in Reports[h]} :
    pc[h] = "appended" /\ call[h].receipt.id = id
      ~> \E o \in observations : o.receipt.id = id
=============================================================================
