------------------------------- MODULE Adoption -------------------------------
(***************************************************************************)
(* Adoption of an existing project (adoption/project.py): a read-only plan *)
(* bound to the entries of the project's root, and its application under   *)
(* an exclusive marker file: a store is built in a staging directory, gets *)
(* its receipt, and is renamed to the sidecar.  Several operators may be   *)
(* at it while the project's own tools change the root.  One action per    *)
(* file-system step that others can see.                                   *)
(***************************************************************************)
EXTENDS Naturals, FiniteSets

CONSTANTS
  Operators,    \* processes that run adopt or onboarding-apply
  Identities,   \* project ids with their names
  Identity,     \* the identity that each operator asks for
  HostEntries,  \* what the project's own tools put into the root
  None,
  NoPlan,
  MaxFaults,    \* bound on failed calls and dying processes
  MaxEdits      \* bound on changes by the project's tools

ASSUME AdoptionAssumption ==
  /\ Identity \in [Operators -> Identities]
  /\ None \notin Identities
  /\ MaxFaults \in Nat /\ MaxEdits \in Nat

Modes == {"embedded", "sidecar"}
SnapshotType ==
  [host : SUBSET HostEntries, embedded : BOOLEAN, marker : BOOLEAN,
   staging : SUBSET Operators, sidecar : BOOLEAN]
PlanType ==
  [identity : Identities, status : {"safe", "blocked", "already_adopted"},
   mode : Modes \cup {None}, snapshot : SnapshotType,
   conflicts : SUBSET {"interrupted-adoption", "existing-stateweave-conflict",
                       "sidecar-conflict"}]

ASSUME NoPlanAssumption == NoPlan \notin PlanType /\ None \notin PlanType

\* A store with its configuration, and its adoption receipt, which names the plan.
ProjectType == [identity : Identities, receipt : PlanType \cup {NoPlan}]
NoProject == [identity |-> None, receipt |-> NoPlan]

AtWork == {"marked", "checked", "built", "receipted", "renamed", "failed", "discarded"}
Stages == AtWork \cup {"idle", "confirmed", "planned", "adopted"}

VARIABLES
  host,      \* entries of the root that are not StateWeave's
  embedded,  \* identity of a configuration in the root itself
  seenEmpty, \* identity an init command has found the root empty for
  marker,    \* .stateweave-adoption.lock
  staging,   \* .stateweave-adopt-<uuid>, by operator
  sidecar,   \* .stateweave-project
  pc,        \* where each operator's command stands
  agreed,    \* the plan whose digest its operator has confirmed
  faults, edits

root == <<host, embedded, marker, staging, sidecar>>
others == <<host, embedded, seenEmpty>>
commands == <<pc, agreed>>
bounds == <<faults, edits>>
adoptionVars == <<root, seenEmpty, commands, bounds>>

AdoptionTypeOK ==
  /\ host \subseteq HostEntries
  /\ embedded \in Identities \cup {None}
  /\ seenEmpty \in Identities \cup {None}
  /\ marker \in BOOLEAN
  /\ staging \in [Operators -> ProjectType \cup {NoProject}]
  /\ sidecar \in ProjectType \cup {NoProject}
  /\ pc \in [Operators -> Stages \cup {"policy"}]
  /\ agreed \in [Operators -> PlanType \cup {NoPlan}]
  /\ faults \in 0..MaxFaults /\ edits \in 0..MaxEdits

AdoptionInit ==
  /\ host \in SUBSET HostEntries
  /\ embedded = None /\ seenEmpty = None
  /\ marker = FALSE
  /\ staging = [o \in Operators |-> NoProject]
  /\ sidecar = NoProject
  /\ pc = [o \in Operators |-> "idle"]
  /\ agreed = [o \in Operators |-> NoPlan]
  /\ faults = 0 /\ edits = 0

-----------------------------------------------------------------------------
(* plan_project_adoption                                                   *)

\* _root_snapshot: which entries there are, by name.
Snapshot ==
  [host |-> host, embedded |-> embedded # None, marker |-> marker,
   staging |-> {o \in Operators : staging[o] # NoProject},
   sidecar |-> sidecar # NoProject]

Configurations ==
  {c \in {[mode |-> "embedded", identity |-> embedded],
          [mode |-> "sidecar", identity |-> sidecar.identity]} : c.identity # None}

\* _validated_existing_config: two configurations, or one of another identity.
Ambiguous(i) ==
  Cardinality(Configurations) > 1 \/ \E c \in Configurations : c.identity # i

Interrupted == marker \/ Snapshot.staging # {}

Conflicts(i) ==
  {k \in {"interrupted-adoption", "existing-stateweave-conflict", "sidecar-conflict"} :
     \/ k = "interrupted-adoption" /\ Interrupted
     \/ k = "existing-stateweave-conflict" /\ Ambiguous(i)
     \/ /\ k = "sidecar-conflict" /\ ~Ambiguous(i) /\ sidecar # NoProject
        /\ Configurations = {} \/ Interrupted}

AdoptionPlan(i) ==
  LET free == Conflicts(i) = {}
      existing == {c.mode : c \in Configurations}
  IN [identity |-> i, conflicts |-> Conflicts(i), snapshot |-> Snapshot,
      status |-> IF ~free THEN "blocked"
                 ELSE IF existing # {} THEN "already_adopted" ELSE "safe",
      mode |-> IF ~free THEN None
               ELSE IF existing = {"embedded"} THEN "embedded" ELSE "sidecar"]

-----------------------------------------------------------------------------
(* apply_project_adoption                                                  *)

Step(o, from, to) == pc[o] = from /\ pc' = [pc EXCEPT ![o] = to]

\* The operator confirms the plan of this moment.  A plan that is not safe is
\* answered without any change.
Review(o) ==
  /\ Step(o, "idle", "confirmed")
  /\ agreed' = [agreed EXCEPT ![o] = AdoptionPlan(Identity[o])]
  /\ agreed'[o].status = "safe"
  /\ UNCHANGED <<root, seenEmpty, bounds>>

\* The plan is computed again.
Replan(o) ==
  /\ Step(o, "confirmed", "planned")
  /\ AdoptionPlan(Identity[o]) = agreed[o]
  /\ UNCHANGED <<root, seenEmpty, agreed, bounds>>

\* The plan has changed, or the marker is there: nothing was made, nothing is
\* removed.
Refuse(o) ==
  /\ \/ pc[o] = "confirmed" /\ AdoptionPlan(Identity[o]) # agreed[o]
     \/ pc[o] = "planned" /\ marker
  /\ pc' = [pc EXCEPT ![o] = "idle"]
  /\ agreed' = [agreed EXCEPT ![o] = NoPlan]
  /\ UNCHANGED <<root, seenEmpty, bounds>>

\* os.open with O_CREAT and O_EXCL.  The mutant opens a marker that is there.
TakeMarker_Shared(o) ==
  /\ Step(o, "planned", "marked")
  /\ marker' = TRUE
  /\ UNCHANGED <<others, staging, sidecar, agreed, bounds>>

TakeMarker(o) ==
  /\ Step(o, "planned", "marked")
  /\ ~marker /\ marker' = TRUE
  /\ UNCHANGED <<others, staging, sidecar, agreed, bounds>>

\* The root, but for the marker, must be as planned.
CheckRoot(o) ==
  /\ Step(o, "marked", IF [Snapshot EXCEPT !.marker = FALSE] = agreed[o].snapshot
                          /\ sidecar = NoProject
                       THEN "checked" ELSE "failed")
  /\ UNCHANGED <<root, seenEmpty, agreed, bounds>>

\* initialize_project in the staging directory.
BuildStore(o) ==
  /\ Step(o, "checked", "built")
  /\ staging' = [staging EXCEPT ![o] = [identity |-> Identity[o], receipt |-> NoPlan]]
  /\ UNCHANGED <<others, marker, sidecar, agreed, bounds>>

\* _write_adoption_receipt.
WriteReceipt(o) ==
  /\ Step(o, "built", "receipted")
  /\ staging' = [staging EXCEPT ![o].receipt = agreed[o]]
  /\ UNCHANGED <<others, marker, sidecar, agreed, bounds>>

Rename(o) ==
  /\ Step(o, "receipted", "renamed")
  /\ sidecar = NoProject
  /\ sidecar' = staging[o]
  /\ staging' = [staging EXCEPT ![o] = NoProject]
  /\ UNCHANGED <<others, marker, agreed, bounds>>

\* "except BaseException": remove the staging directory of this command.
Discard(o) ==
  /\ Step(o, "failed", "discarded")
  /\ staging' = [staging EXCEPT ![o] = NoProject]
  /\ UNCHANGED <<others, marker, sidecar, agreed, bounds>>

\* "finally": remove the marker.
Unmark(o) ==
  /\ \/ Step(o, "renamed", "adopted") /\ UNCHANGED agreed
     \/ Step(o, "discarded", "idle") /\ agreed' = [agreed EXCEPT ![o] = NoPlan]
  /\ marker' = FALSE
  /\ UNCHANGED <<others, staging, sidecar, bounds>>

-----------------------------------------------------------------------------
(* Faults, and what others do                                              *)

Fault == faults < MaxFaults /\ faults' = faults + 1 /\ UNCHANGED edits

\* A call fails, and is handled; or the staging directory cannot be removed.
StepFails(o) ==
  /\ \/ \E from \in {"marked", "checked", "built", "receipted"} : Step(o, from, "failed")
     \/ Step(o, "failed", "discarded")
  /\ Fault
  /\ UNCHANGED <<root, seenEmpty, agreed>>

\* The process dies, or the marker cannot be removed.
Dies(o) ==
  /\ pc[o] # "idle"
  /\ pc' = [pc EXCEPT ![o] = "idle"]
  /\ agreed' = [agreed EXCEPT ![o] = NoPlan]
  /\ Fault
  /\ UNCHANGED <<root, seenEmpty>>

\* The project's own tools.
EditHost(e) ==
  /\ edits < MaxEdits /\ edits' = edits + 1
  /\ host' = IF e \in host THEN host \ {e} ELSE host \cup {e}
  /\ UNCHANGED <<embedded, seenEmpty, marker, staging, sidecar, commands, faults>>

\* initialize_project of the root itself: it must be empty, and then gets its
\* configuration, with no lock in between.
FindEmpty(i) ==
  /\ host = {} /\ Configurations = {} /\ ~Interrupted /\ seenEmpty = None
  /\ seenEmpty' = i
  /\ UNCHANGED <<root, commands, bounds>>

InitializeRoot ==
  /\ seenEmpty # None /\ embedded' = seenEmpty /\ seenEmpty' = None
  /\ UNCHANGED <<host, marker, staging, sidecar, commands, bounds>>

\* Someone inspects what a dead adoption has left and removes it.
ClearEvidence ==
  /\ Interrupted /\ \A o \in Operators : pc[o] \notin AtWork
  /\ marker' = FALSE
  /\ staging' = [o \in Operators |-> NoProject]
  /\ UNCHANGED <<others, sidecar, commands, bounds>>

Adopt(o) ==
  \/ Replan(o) \/ Refuse(o) \/ TakeMarker(o) \/ CheckRoot(o) \/ BuildStore(o)
  \/ WriteReceipt(o) \/ Rename(o) \/ Discard(o) \/ Unmark(o)

Others ==
  \/ \E o \in Operators : StepFails(o) \/ Dies(o)
  \/ \E e \in HostEntries : EditHost(e)
  \/ \E i \in Identities : FindEmpty(i)
  \/ InitializeRoot
  \/ ClearEvidence

-----------------------------------------------------------------------------
(* Properties                                                              *)

\* While an adoption is at work its marker stands and nobody else is at work;
\* once it has checked the root, there is no staging directory but its own.  No
\* refusal, failure or clean-up of another command takes these away.
AdoptersAreAlone ==
  \A o \in Operators : \A p \in Operators \ {o} :
    /\ pc[o] \in AtWork => marker /\ pc[p] \notin AtWork
    /\ pc[o] \in {"checked", "built", "receipted", "renamed"} => staging[p] = NoProject

\* audit_adoption: a sidecar has its receipt, and both name the same project.
AdoptionAuditPasses ==
  sidecar # NoProject =>
    sidecar.receipt # NoPlan /\ sidecar.receipt.identity = sidecar.identity
=============================================================================
