----------------------------- MODULE Onboarding -----------------------------
(***************************************************************************)
(* Guided onboarding (onboarding/project.py) over project adoption: a plan *)
(* that holds the adoption plan and the operator's sidecar policy; its     *)
(* application, which adopts if need be and then, under the store's writer *)
(* lock, persists the plan and one immutable policy decision.  The two are *)
(* separate: a command may end between them, and several may race for the  *)
(* decision.                                                               *)
(*                                                                         *)
(* The lock of a dead holder is taken to be recovered by the next command  *)
(* (WriterLock models how).                                                *)
(***************************************************************************)
EXTENDS Adoption, Sequences, Functions

CONSTANTS
  Policy,     \* each operator's --sidecar-policy; None: the adopt command
  Role,       \* each operator's --reviewer-role
  Roles,      \* the roles of the default configuration
  NoDecision

Choices == {"tracked", "local", "defer"}

ASSUME OnboardingAssumption ==
  /\ Policy \in [Operators -> Choices \cup {None}]
  /\ DOMAIN Role = Operators

VARIABLES
  plans,    \* extensions/onboarding/plans
  decision, \* extensions/onboarding/sidecar-policy.json
  strays    \* where a write that died has left its temporary file

evidence == <<plans, decision, strays>>
vars == <<adoptionVars, evidence>>

Codes == {"review-plan", "resolve-conflict", "defer-onboarding",
          "create-sidecar", "record-sidecar-policy"}
OnboardingPlanType ==
  [status : {"blocked", "complete", "deferred", "ready"}, policy : Choices,
   adoption : PlanType, actions : UNION {[1..n -> Codes] : n \in 1..3}]

Decisions ==
  [plan : OnboardingPlanType, adoption : PlanType, identity : Identities,
   policy : Choices, role : Range(Role)]

TypeOK ==
  /\ AdoptionTypeOK
  /\ plans \subseteq OnboardingPlanType
  /\ decision \in Decisions \cup {NoDecision}
  /\ strays \subseteq {"plans", "root"}

Init ==
  /\ AdoptionInit
  /\ plans = {}
  /\ decision = NoDecision
  /\ strays = {}

-----------------------------------------------------------------------------
(* plan_onboarding, its validation and the audit                           *)

\* _existing_policy and the choice of the status.  The mutant has an adopted
\* project without a decision as complete.
OnboardingStatus_Undecided(adoption, choice) ==
  CASE adoption.status = "blocked" -> "blocked"
    [] adoption.status = "already_adopted" -> "complete"
    [] choice = "defer" -> "deferred"
    [] OTHER -> "ready"

OnboardingStatus(adoption, choice) ==
  LET adopted == adoption.status = "already_adopted"
  IN CASE adoption.status = "blocked" -> "blocked"
       [] adoption.mode = "embedded" -> "complete"
       [] adopted /\ decision # NoDecision ->
            IF decision.policy = choice THEN "complete" ELSE "blocked"
       [] adopted /\ choice = "defer" -> "blocked"
       [] ~adopted /\ choice = "defer" -> "deferred"
       [] OTHER -> "ready"

PlannedActions(status, adoption) ==
  <<"review-plan">> \o
  CASE status = "blocked" -> <<"resolve-conflict">>
    [] status = "deferred" -> <<"defer-onboarding">>
    [] status = "complete" -> <<>>
    [] status = "ready" ->
         (IF adoption.status = "safe" THEN <<"create-sidecar">> ELSE <<>>)
           \o <<"record-sidecar-policy">>

\* _validate_plan: the actions that go with a status.
ExpectedActions(p) ==
  CASE p.status = "blocked" -> <<"review-plan", "resolve-conflict">>
    [] p.status = "deferred" -> <<"review-plan", "defer-onboarding">>
    [] p.status = "complete" -> <<"review-plan">>
    [] p.status = "ready" /\ p.adoption.status = "safe" ->
         <<"review-plan", "create-sidecar", "record-sidecar-policy">>
    [] OTHER -> <<"review-plan", "record-sidecar-policy">>

PlanIsValid(p) == p.actions = ExpectedActions(p)

\* The plan for an operator's choice, on top of the adoption plan.
OnboardingPlan(adoption, choice) ==
  LET status == OnboardingStatus(adoption, choice)
  IN [status |-> status, policy |-> choice, adoption |-> adoption,
      actions |-> PlannedActions(status, adoption)]

DecisionIsBound ==
  /\ decision.plan \in plans
  /\ decision.identity = sidecar.identity
  /\ decision.role \in Roles
  /\ decision.policy = decision.plan.policy
  /\ decision.adoption = decision.plan.adoption

\* audit_onboarding: the kinds of errors that it reports.  Every plan is valid
\* and of this project, the decision agrees with the plan it refers to, and
\* nothing else lies in the two directories.
OnboardingErrors ==
  {e \in {"unexpected entry", "plan", "decision"} :
     \/ e = "unexpected entry" /\ strays # {}
     \/ e = "plan"
        /\ \E p \in plans : ~PlanIsValid(p) \/ p.adoption.identity # sidecar.identity
     \/ e = "decision" /\ decision # NoDecision /\ ~DecisionIsBound}

-----------------------------------------------------------------------------
(* apply_onboarding_plan                                                   *)

\* The operator confirms a plan that is ready.  An adopted project needs no
\* adoption.  A plan that is complete, deferred or blocked changes nothing.
ConfirmOnboarding(o) ==
  \E adoption \in {AdoptionPlan(Identity[o])} :
  \E plan \in {OnboardingPlan(adoption, Policy[o])} :
    /\ plan.status = "ready" /\ PlanIsValid(plan)
    /\ Step(o, "idle", IF adoption.status = "safe" THEN "confirmed" ELSE "adopted")
    /\ agreed' = [agreed EXCEPT ![o] = adoption]
    /\ UNCHANGED <<root, seenEmpty, bounds, evidence>>

ReviewedPlan(o) ==
  [status |-> "ready", policy |-> Policy[o], adoption |-> agreed[o],
   actions |-> PlannedActions("ready", agreed[o])]

Stop(o, from) ==
  /\ Step(o, from, "idle")
  /\ agreed' = [agreed EXCEPT ![o] = NoPlan]
  /\ UNCHANGED <<root, seenEmpty, bounds>>

LockIsHeld == \E o \in Operators : pc[o] = "policy"

MayDecide(o) == Policy[o] # None /\ Role[o] \in Roles /\ embedded = None /\ ~LockIsHeld

\* The adopt command is done.  An unknown role, a second configuration in the
\* root, or a lock that is not released in time refuses the decision, after
\* the adoption.
Finish(o) ==
  /\ ~MayDecide(o)
  /\ Stop(o, "adopted")
  /\ UNCHANGED evidence

NewDecision(o) ==
  [plan |-> ReviewedPlan(o), adoption |-> agreed[o], policy |-> Policy[o],
   identity |-> agreed[o].identity, role |-> Role[o]]

\* The mutant writes the decision first.
WritePlan_PolicyFirst(o) ==
  /\ MayDecide(o)
  /\ Step(o, "adopted", "policy")
  /\ decision = NoDecision
  /\ decision' = NewDecision(o)
  /\ UNCHANGED <<root, seenEmpty, agreed, bounds, plans, strays>>

\* Under the writer lock: _immutable_write of the plan, named by its digest,
\* and then of the decision.
WritePlan(o) ==
  /\ MayDecide(o)
  /\ Step(o, "adopted", "policy")
  /\ plans' = plans \cup {ReviewedPlan(o)}
  /\ UNCHANGED <<root, seenEmpty, agreed, bounds, decision, strays>>

\* The mutant replaces a decision that is there.
WritePolicy_Replaces(o) ==
  /\ Stop(o, "policy")
  /\ decision' = NewDecision(o)
  /\ UNCHANGED <<plans, strays>>

\* A decision that is there is an identity collision: it stays.
WritePolicy(o) ==
  /\ Stop(o, "policy")
  /\ decision' = IF decision = NoDecision THEN NewDecision(o) ELSE decision
  /\ UNCHANGED <<plans, strays>>

\* The process dies inside atomic_write_json, of a plan or a decision that is
\* not there yet: nothing is replaced, and the temporary file stays beside it.
\* No command removes it.
DiesWriting(o) ==
  /\ \/ /\ pc[o] = "adopted" /\ MayDecide(o) /\ ReviewedPlan(o) \notin plans
        /\ strays' = strays \cup {"plans"}
     \/ /\ pc[o] = "policy" /\ decision = NoDecision
        /\ strays' = strays \cup {"root"}
  /\ Dies(o)
  /\ UNCHANGED <<plans, decision>>

Command(o) ==
  \/ Adopt(o) /\ UNCHANGED evidence
  \/ Finish(o) \/ WritePlan(o) \/ WritePolicy(o)

Confirm(o) ==
  \/ Policy[o] = None /\ Review(o) /\ UNCHANGED evidence
  \/ Policy[o] # None /\ ConfirmOnboarding(o)

Next ==
  \/ \E o \in Operators : Confirm(o) \/ Command(o) \/ DiesWriting(o)
  \/ Others /\ UNCHANGED evidence

\* A running command goes on, an operator who is done with nothing comes back,
\* and somebody looks after what dead commands have left.
Fairness ==
  /\ \A o \in Operators : WF_vars(Command(o)) /\ WF_vars(Confirm(o))
  /\ WF_vars(ClearEvidence /\ UNCHANGED evidence)

Spec == Init /\ [][Next]_vars /\ Fairness

-----------------------------------------------------------------------------
(* Properties                                                              *)

\* Whatever a command does, and wherever it dies, the audits of adoption and
\* onboarding find nothing wrong with what they read: a sidecar has its receipt
\* from the moment it is there, and a decision its plan.  All that they can
\* report is the temporary file of a write that died.
AuditsReportStraysOnly ==
  /\ AdoptionAuditPasses
  /\ sidecar # NoProject => OnboardingErrors \subseteq {"unexpected entry"}

\* Onboarding keeps its promise: one adoption, by a safe plan, and one decision
\* that is never replaced.
Promise == INSTANCE Onboarded WITH
  Plans <- PlanType,
  receipt <- IF sidecar = NoProject THEN None ELSE sidecar.receipt,
  decision <- IF decision = NoDecision THEN None ELSE decision
ImplementsOnboarding == Promise!Spec

\* An adopted project that some operator is willing to decide about gets its
\* decision, however many commands died or lost a race on the way, unless the
\* root itself was initialised meanwhile.
AdoptedIsDecided ==
  \A o \in {q \in Operators : Policy[q] \in {"tracked", "local"} /\ Role[q] \in Roles} :
    sidecar.identity = Identity[o] ~> (decision # NoDecision \/ embedded # None)
=============================================================================
