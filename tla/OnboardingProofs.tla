--------------------------- MODULE OnboardingProofs ---------------------------
(***************************************************************************)
(* Theorems about Onboarding and the adoption under it, for any operators, *)
(* identities and policies, and any number of faults and edits.            *)
(***************************************************************************)
EXTENDS Onboarding, SequenceTheorems, TLAPS

\* A command that has confirmed something holds a plan for its own identity; one
\* on its way to adopt holds a safe plan without conflicts, of a root with no
\* staging directory.
AgreedInv ==
  \A o \in Operators :
    /\ pc[o] # "idle" => agreed[o] # NoPlan /\ agreed[o].identity = Identity[o]
    /\ pc[o] \in {"confirmed", "planned"} \cup AtWork =>
         /\ agreed[o].status = "safe" /\ agreed[o].conflicts = {}
         /\ agreed[o].snapshot.staging = {}

\* What a command has built so far is what it will rename.
StagingInv ==
  \A o \in Operators :
    /\ pc[o] = "built" => staging[o].identity = Identity[o]
    /\ pc[o] = "receipted" =>
         staging[o] = [identity |-> Identity[o], receipt |-> agreed[o]]

\* Past its adoption, a command works on a project of its own identity, whose
\* receipt is its own plan if that was to create the sidecar.
AdoptedInv ==
  \A o \in Operators :
    pc[o] \in {"renamed", "adopted", "policy"} =>
      /\ sidecar # NoProject /\ sidecar.identity = Identity[o]
      /\ agreed[o].status = "safe" => sidecar.receipt = agreed[o]

\* Evidence is kept in the sidecar, and a decision is written after its plan.
EvidenceInv ==
  /\ plans # {} => sidecar # NoProject
  /\ \A o \in Operators :
       pc[o] = "policy" =>
         Policy[o] # None /\ Role[o] \in Roles /\ ReviewedPlan(o) \in plans

\* What audit_onboarding reads is in order.
EvidenceIsSound ==
  /\ \A p \in plans : PlanIsValid(p) /\ p.adoption.identity = sidecar.identity
  /\ decision # NoDecision => DecisionIsBound

IInv ==
  /\ TypeOK
  /\ AgreedInv /\ AdoptersAreAlone /\ StagingInv
  /\ AdoptedInv /\ EvidenceInv
  /\ AdoptionAuditPasses /\ EvidenceIsSound

-----------------------------------------------------------------------------
(* Plans                                                                   *)

\* A plan is typed, names the identity it was asked for, and is safe only where
\* no adoption is at work.
LEMMA AdoptionPlans ==
  ASSUME TypeOK, NEW i \in Identities
  PROVE  /\ AdoptionPlan(i) \in PlanType
         /\ AdoptionPlan(i) # NoPlan
         /\ AdoptionPlan(i).identity = i
         /\ AdoptionPlan(i).status = "safe" =>
              AdoptionPlan(i).snapshot.staging = {} /\ AdoptionPlan(i).conflicts = {}
<1>1. Snapshot \in SnapshotType
  BY DEF TypeOK, AdoptionTypeOK, Snapshot, SnapshotType
<1>2. Conflicts(i) \subseteq {"interrupted-adoption", "existing-stateweave-conflict",
                              "sidecar-conflict"}
  BY DEF Conflicts
<1>3. AdoptionPlan(i) \in PlanType
  BY <1>1, <1>2 DEF AdoptionPlan, PlanType, Modes
<1>4. AdoptionPlan(i).status = "safe" => Conflicts(i) = {}
  BY DEF AdoptionPlan
<1>5. Conflicts(i) = {} => Snapshot.staging = {}
  BY DEF Conflicts, Interrupted
<1>6. QED
  BY <1>3, <1>4, <1>5, NoPlanAssumption DEF AdoptionPlan

\* A plan that is ready and not safe is for the sidecar that is there.
LEMMA ReadyPlans ==
  ASSUME TypeOK, NEW i \in Identities, NEW choice,
         OnboardingStatus(AdoptionPlan(i), choice) = "ready",
         AdoptionPlan(i).status # "safe"
  PROVE  sidecar # NoProject /\ sidecar.identity = i
<1>1. AdoptionPlan(i).status # "blocked" /\ AdoptionPlan(i).mode # "embedded"
  BY DEF OnboardingStatus
<1>2. Conflicts(i) = {} /\ {c.mode : c \in Configurations} # {}
  BY <1>1 DEF AdoptionPlan
<1>3. {c.mode : c \in Configurations} # {"embedded"}
  BY <1>1, <1>2 DEF AdoptionPlan
<1>4. PICK c \in Configurations : c.mode # "embedded"
  BY <1>2, <1>3
<1>5. c.identity = sidecar.identity /\ c.identity # None
  BY <1>4 DEF Configurations
<1>6. ~Ambiguous(i)
  BY <1>2 DEF Conflicts
<1>7. c.identity = i
  BY <1>6 DEF Ambiguous
<1>8. sidecar.identity = i /\ sidecar.identity # None
  BY <1>5, <1>7
<1>9. NoProject.identity = None
  BY DEF NoProject
<1>10. QED
  BY <1>8, <1>9

\* Lists of actions that are put together.
LEMMA TwoActions ==
  ASSUME NEW S, NEW a \in S, NEW b \in S
  PROVE  <<a>> \o <<b>> = <<a, b>>
<1> DEFINE s == <<a>> \o <<b>>
           t == <<a, b>>
<1>1. s \in Seq(S) /\ t \in Seq(S) /\ Len(s) = 2 /\ Len(t) = 2
  OBVIOUS
<1>2. s[1] = t[1] /\ s[2] = t[2]
  OBVIOUS
<1>3. \A i \in 1..Len(s) : s[i] = t[i]
  BY <1>1, <1>2
<1> HIDE DEF s, t
<1>4. s = t
  BY <1>1, <1>3, SeqEqual
<1>5. QED
  BY <1>4 DEF s, t

\* One action followed by two is three.
LEMMA ThreeActions ==
  ASSUME NEW S, NEW a \in S, NEW b \in S, NEW c \in S
  PROVE  <<a>> \o <<b, c>> = <<a, b, c>>
<1> DEFINE s == <<a>> \o <<b, c>>
           t == <<a, b, c>>
<1>1. s \in Seq(S) /\ t \in Seq(S) /\ Len(s) = 3 /\ Len(t) = 3
  OBVIOUS
<1>2. s[1] = t[1] /\ s[2] = t[2] /\ s[3] = t[3]
  OBVIOUS
<1>3. \A i \in 1..Len(s) : s[i] = t[i]
  BY <1>1, <1>2
<1> HIDE DEF s, t
<1>4. s = t
  BY <1>1, <1>3, SeqEqual
<1>5. QED
  BY <1>4 DEF s, t

\* The plan of a command that is ready has the actions that its validation expects.
LEMMA ReviewedPlans ==
  ASSUME NEW o \in Operators, agreed[o] \in PlanType, Policy[o] \in Choices
  PROVE  ReviewedPlan(o) \in OnboardingPlanType /\ PlanIsValid(ReviewedPlan(o))
<1> DEFINE actions == PlannedActions("ready", agreed[o])
           record == <<"record-sidecar-policy">>
<1>0. /\ <<"create-sidecar">> \o record = <<"create-sidecar", "record-sidecar-policy">>
      /\ <<>> \o record = record
      /\ <<"review-plan">> \o record = <<"review-plan", "record-sidecar-policy">>
      /\ <<"review-plan">> \o <<"create-sidecar", "record-sidecar-policy">>
           = <<"review-plan", "create-sidecar", "record-sidecar-policy">>
  <2>1. \A a, b \in Codes : <<a>> \o <<b>> = <<a, b>>
    BY TwoActions
  <2>2. \A a, b, c \in Codes : <<a>> \o <<b, c>> = <<a, b, c>>
    BY ThreeActions
  <2>3. <<>> \o record = record
    OBVIOUS
  <2>4. QED
    BY <2>1, <2>2, <2>3 DEF Codes
<1>1. actions = ExpectedActions(ReviewedPlan(o))
  <2>1. ReviewedPlan(o).status = "ready" /\ ReviewedPlan(o).adoption = agreed[o]
    BY DEF ReviewedPlan
  <2>2. CASE agreed[o].status = "safe"
    BY <1>0, <2>1, <2>2 DEF PlannedActions, ExpectedActions
  <2>3. CASE agreed[o].status # "safe"
    BY <1>0, <2>1, <2>3 DEF PlannedActions, ExpectedActions
  <2>4. QED
    BY <2>2, <2>3
<1>2. actions \in [1..3 -> Codes] \cup [1..2 -> Codes]
  BY <1>1 DEF ExpectedActions, ReviewedPlan, Codes
<1>3. QED
  BY <1>1, <1>2 DEF ReviewedPlan, OnboardingPlanType, PlanIsValid
-----------------------------------------------------------------------------
(* Steps                                                                   *)

\* Every step keeps the types.
LEMMA TypeStep ==
  ASSUME IInv, [Next]_vars
  PROVE  TypeOK'
<1> USE AdoptionAssumption, OnboardingAssumption DEF IInv, TypeOK, AdoptionTypeOK,
        AtWork, Stages, Step, Stop, Fault, commands, bounds, root, others, evidence
<1>1. ASSUME NEW o \in Operators, Review(o) /\ UNCHANGED evidence PROVE TypeOK'
  <2> DEFINE a == AdoptionPlan(Identity[o])
  <2>1. a \in PlanType /\ a # NoPlan /\ a.identity = Identity[o]
        /\ (a.status = "safe" => a.conflicts = {} /\ a.snapshot.staging = {})
    BY AdoptionPlans, AdoptionAssumption DEF IInv
  <2>2. agreed' = [agreed EXCEPT ![o] = a] /\ agreed'[o].status = "safe"
    BY <1>1 DEF Review
  <2>3. /\ pc' = [pc EXCEPT ![o] = "confirmed"] /\ a.status = "safe"
        /\ UNCHANGED <<root, seenEmpty, bounds, evidence>>
    BY <1>1, <2>1, <2>2 DEF Review
  <2> HIDE DEF a
  <2>4. QED
    BY <2>1, <2>2, <2>3
<1>2. ASSUME NEW o \in Operators, ConfirmOnboarding(o) PROVE TypeOK'
  <2> DEFINE a == AdoptionPlan(Identity[o])
  <2>1. a \in PlanType /\ a # NoPlan /\ a.identity = Identity[o]
        /\ (a.status = "safe" => a.conflicts = {} /\ a.snapshot.staging = {})
    BY AdoptionPlans, AdoptionAssumption DEF IInv
  <2>2. /\ pc' = [pc EXCEPT ![o] = IF a.status = "safe" THEN "confirmed" ELSE "adopted"]
        /\ agreed' = [agreed EXCEPT ![o] = a]
        /\ UNCHANGED <<root, seenEmpty, bounds, evidence>>
    BY <1>2 DEF ConfirmOnboarding
  <2> HIDE DEF a
  <2>3. QED
    BY <2>1, <2>2
<1>3. ASSUME NEW o \in Operators, Replan(o) /\ UNCHANGED evidence PROVE TypeOK'
  BY <1>3 DEF Replan
<1>4. ASSUME NEW o \in Operators, Refuse(o) /\ UNCHANGED evidence PROVE TypeOK'
  BY <1>4 DEF Refuse
<1>5. ASSUME NEW o \in Operators, TakeMarker(o) /\ UNCHANGED evidence PROVE TypeOK'
  BY <1>5 DEF TakeMarker
<1>6. ASSUME NEW o \in Operators, CheckRoot(o) /\ UNCHANGED evidence PROVE TypeOK'
  BY <1>6 DEF CheckRoot
<1>7. ASSUME NEW o \in Operators, BuildStore(o) /\ UNCHANGED evidence PROVE TypeOK'
  BY <1>7 DEF BuildStore, ProjectType
<1>8. ASSUME NEW o \in Operators, WriteReceipt(o) /\ UNCHANGED evidence PROVE TypeOK'
  <2>1. staging[o] \in ProjectType
    BY <1>8 DEF IInv, StagingInv, WriteReceipt, NoProject, ProjectType
  <2>2. agreed[o] \in PlanType \cup {NoPlan}
    OBVIOUS
  <2>3. QED
    BY <1>8, <2>1, <2>2 DEF WriteReceipt, ProjectType
<1>9. ASSUME NEW o \in Operators, Rename(o) /\ UNCHANGED evidence PROVE TypeOK'
  BY <1>9 DEF Rename
<1>10. ASSUME NEW o \in Operators, Discard(o) /\ UNCHANGED evidence PROVE TypeOK'
  BY <1>10 DEF Discard
<1>11. ASSUME NEW o \in Operators, Unmark(o) /\ UNCHANGED evidence PROVE TypeOK'
  BY <1>11 DEF Unmark
<1>12. ASSUME NEW o \in Operators, Finish(o) PROVE TypeOK'
  BY <1>12 DEF Finish
<1>13. ASSUME NEW o \in Operators, WritePlan(o) PROVE TypeOK'
  <2>1. agreed[o] \in PlanType /\ Policy[o] \in Choices
    BY <1>13 DEF IInv, AgreedInv, WritePlan, MayDecide
  <2>2. ReviewedPlan(o) \in OnboardingPlanType
    BY <2>1, ReviewedPlans
  <2>3. QED
    BY <1>13, <2>2 DEF WritePlan
<1>14. ASSUME NEW o \in Operators, WritePolicy(o) PROVE TypeOK'
  <2>1. agreed[o] \in PlanType /\ Policy[o] \in Choices /\ agreed[o].identity \in Identities
    BY <1>14 DEF IInv, AgreedInv, EvidenceInv, WritePolicy
  <2>2. ReviewedPlan(o) \in OnboardingPlanType
    BY <2>1, ReviewedPlans
  <2>3. NewDecision(o) \in Decisions
    BY <2>1, <2>2 DEF NewDecision, Decisions, Range
  <2>4. QED
    BY <1>14, <2>3 DEF WritePolicy
<1>15. ASSUME NEW o \in Operators, StepFails(o) /\ UNCHANGED evidence PROVE TypeOK'
  BY <1>15 DEF StepFails
<1>16. ASSUME NEW o \in Operators, Dies(o) /\ UNCHANGED evidence PROVE TypeOK'
  BY <1>16 DEF Dies
<1>17. ASSUME NEW e \in HostEntries, EditHost(e), UNCHANGED evidence PROVE TypeOK'
  BY <1>17 DEF EditHost
<1>18. ASSUME NEW i \in Identities, FindEmpty(i), UNCHANGED evidence PROVE TypeOK'
  BY <1>18 DEF FindEmpty
<1>19. ASSUME InitializeRoot, UNCHANGED evidence PROVE TypeOK'
  BY <1>19 DEF InitializeRoot
<1>20. ASSUME ClearEvidence, UNCHANGED evidence PROVE TypeOK'
  BY <1>20 DEF ClearEvidence
<1>21. CASE UNCHANGED vars
  BY <1>21 DEF vars, adoptionVars
<1>22. ASSUME NEW o \in Operators, DiesWriting(o) PROVE TypeOK'
  <2>1. strays' \subseteq {"plans", "root"}
    BY <1>22 DEF DiesWriting
  <2>2. QED
    BY <1>22, <2>1 DEF DiesWriting, Dies
<1>23. QED
  BY <1>1, <1>2, <1>3, <1>4, <1>5, <1>6, <1>7, <1>8, <1>9, <1>10, <1>11, <1>12, <1>13,
       <1>14, <1>15, <1>16, <1>17, <1>18, <1>19, <1>20, <1>21, <1>22 DEF Next, Confirm,
       Command, Adopt, Others

\* A command holds the plan it confirmed until it is done.
LEMMA AgreedStep ==
  ASSUME IInv, [Next]_vars
  PROVE  AgreedInv'
<1> USE AdoptionAssumption DEF IInv, TypeOK, AdoptionTypeOK, AgreedInv, AtWork,
        Stages, Step, Stop, Fault, commands, bounds, root, others, evidence
<1>1. ASSUME NEW o \in Operators, Review(o) /\ UNCHANGED evidence PROVE AgreedInv'
  <2> DEFINE a == AdoptionPlan(Identity[o])
  <2>1. a \in PlanType /\ a # NoPlan /\ a.identity = Identity[o]
        /\ (a.status = "safe" => a.conflicts = {} /\ a.snapshot.staging = {})
    BY AdoptionPlans, AdoptionAssumption DEF IInv
  <2>2. agreed' = [agreed EXCEPT ![o] = a] /\ agreed'[o].status = "safe"
    BY <1>1 DEF Review
  <2>3. /\ pc' = [pc EXCEPT ![o] = "confirmed"] /\ a.status = "safe"
        /\ UNCHANGED <<root, seenEmpty, bounds, evidence>>
    BY <1>1, <2>1, <2>2 DEF Review
  <2> HIDE DEF a
  <2>4. QED
    BY <2>1, <2>2, <2>3
<1>2. ASSUME NEW o \in Operators, ConfirmOnboarding(o) PROVE AgreedInv'
  <2> DEFINE a == AdoptionPlan(Identity[o])
  <2>1. a \in PlanType /\ a # NoPlan /\ a.identity = Identity[o]
        /\ (a.status = "safe" => a.conflicts = {} /\ a.snapshot.staging = {})
    BY AdoptionPlans, AdoptionAssumption DEF IInv
  <2>2. /\ pc' = [pc EXCEPT ![o] = IF a.status = "safe" THEN "confirmed" ELSE "adopted"]
        /\ agreed' = [agreed EXCEPT ![o] = a]
        /\ UNCHANGED <<root, seenEmpty, bounds, evidence>>
    BY <1>2 DEF ConfirmOnboarding
  <2> HIDE DEF a
  <2>3. QED
    BY <2>1, <2>2
<1>3. ASSUME NEW o \in Operators, Replan(o) /\ UNCHANGED evidence PROVE AgreedInv'
  BY <1>3 DEF Replan
<1>4. ASSUME NEW o \in Operators, Refuse(o) /\ UNCHANGED evidence PROVE AgreedInv'
  BY <1>4 DEF Refuse
<1>5. ASSUME NEW o \in Operators, TakeMarker(o) /\ UNCHANGED evidence PROVE AgreedInv'
  BY <1>5 DEF TakeMarker
<1>6. ASSUME NEW o \in Operators, CheckRoot(o) /\ UNCHANGED evidence PROVE AgreedInv'
  BY <1>6 DEF CheckRoot
<1>7. ASSUME NEW o \in Operators, BuildStore(o) /\ UNCHANGED evidence PROVE AgreedInv'
  BY <1>7 DEF BuildStore
<1>8. ASSUME NEW o \in Operators, WriteReceipt(o) /\ UNCHANGED evidence PROVE AgreedInv'
  BY <1>8 DEF WriteReceipt
<1>9. ASSUME NEW o \in Operators, Rename(o) /\ UNCHANGED evidence PROVE AgreedInv'
  BY <1>9 DEF Rename
<1>10. ASSUME NEW o \in Operators, Discard(o) /\ UNCHANGED evidence PROVE AgreedInv'
  BY <1>10 DEF Discard
<1>11. ASSUME NEW o \in Operators, Unmark(o) /\ UNCHANGED evidence PROVE AgreedInv'
  BY <1>11 DEF Unmark
<1>12. ASSUME NEW o \in Operators, Finish(o) PROVE AgreedInv'
  BY <1>12 DEF Finish
<1>13. ASSUME NEW o \in Operators, WritePlan(o) PROVE AgreedInv'
  BY <1>13 DEF WritePlan
<1>14. ASSUME NEW o \in Operators, WritePolicy(o) PROVE AgreedInv'
  BY <1>14 DEF WritePolicy
<1>15. ASSUME NEW o \in Operators, StepFails(o) /\ UNCHANGED evidence PROVE AgreedInv'
  BY <1>15 DEF StepFails
<1>16. ASSUME NEW o \in Operators, Dies(o) /\ UNCHANGED evidence PROVE AgreedInv'
  BY <1>16 DEF Dies
<1>17. ASSUME NEW e \in HostEntries, EditHost(e), UNCHANGED evidence PROVE AgreedInv'
  BY <1>17 DEF EditHost
<1>18. ASSUME NEW i \in Identities, FindEmpty(i), UNCHANGED evidence PROVE AgreedInv'
  BY <1>18 DEF FindEmpty
<1>19. ASSUME InitializeRoot, UNCHANGED evidence PROVE AgreedInv'
  BY <1>19 DEF InitializeRoot
<1>20. ASSUME ClearEvidence, UNCHANGED evidence PROVE AgreedInv'
  BY <1>20 DEF ClearEvidence
<1>21. CASE UNCHANGED vars
  BY <1>21 DEF vars, adoptionVars
<1>22. ASSUME NEW o \in Operators, DiesWriting(o) PROVE AgreedInv'
  BY <1>22 DEF DiesWriting, Dies
<1>23. QED
  BY <1>1, <1>2, <1>3, <1>4, <1>5, <1>6, <1>7, <1>8, <1>9, <1>10, <1>11, <1>12, <1>13,
       <1>14, <1>15, <1>16, <1>17, <1>18, <1>19, <1>20, <1>21, <1>22 DEF Next, Confirm,
       Command, Adopt, Others

\* The marker excludes: a command at work made the marker when there was none, and
\* finds at its check that the root has no staging directory, as its plan says.
LEMMA AloneStep ==
  ASSUME IInv, [Next]_vars
  PROVE  AdoptersAreAlone'
<1> USE DEF IInv, TypeOK, AdoptionTypeOK, AdoptersAreAlone, AtWork, Stages, Step,
        Stop, Fault, commands, bounds, root, others, evidence
<1>1. ASSUME NEW o \in Operators, Review(o) /\ UNCHANGED evidence
         PROVE AdoptersAreAlone'
  BY <1>1 DEF Review
<1>2. ASSUME NEW o \in Operators, ConfirmOnboarding(o) PROVE AdoptersAreAlone'
  BY <1>2 DEF ConfirmOnboarding
<1>3. ASSUME NEW o \in Operators, Replan(o) /\ UNCHANGED evidence
         PROVE AdoptersAreAlone'
  BY <1>3 DEF Replan
<1>4. ASSUME NEW o \in Operators, Refuse(o) /\ UNCHANGED evidence
         PROVE AdoptersAreAlone'
  BY <1>4 DEF Refuse
<1>5. ASSUME NEW o \in Operators, TakeMarker(o) /\ UNCHANGED evidence
         PROVE AdoptersAreAlone'
  BY <1>5 DEF TakeMarker
<1>6. ASSUME NEW o \in Operators, CheckRoot(o) /\ UNCHANGED evidence
         PROVE AdoptersAreAlone'
  <2>1. CASE pc'[o] = "checked"
    <3>1. /\ agreed[o].snapshot.staging = {}
          /\ agreed[o].snapshot = [Snapshot EXCEPT !.marker = FALSE]
      BY <1>6, <2>1 DEF CheckRoot, AgreedInv
    <3>2. [Snapshot EXCEPT !.marker = FALSE].staging =
            {p \in Operators : staging[p] # NoProject}
      BY DEF Snapshot
    <3>3. \A p \in Operators : staging[p] = NoProject
      BY <3>1, <3>2
    <3>4. QED
      BY <1>6, <3>3 DEF CheckRoot
  <2>2. CASE pc'[o] # "checked"
    BY <1>6, <2>2 DEF CheckRoot
  <2>3. QED
    BY <2>1, <2>2
<1>7. ASSUME NEW o \in Operators, BuildStore(o) /\ UNCHANGED evidence
         PROVE AdoptersAreAlone'
  BY <1>7 DEF BuildStore
<1>8. ASSUME NEW o \in Operators, WriteReceipt(o) /\ UNCHANGED evidence
         PROVE AdoptersAreAlone'
  BY <1>8 DEF WriteReceipt
<1>9. ASSUME NEW o \in Operators, Rename(o) /\ UNCHANGED evidence
         PROVE AdoptersAreAlone'
  BY <1>9 DEF Rename
<1>10. ASSUME NEW o \in Operators, Discard(o) /\ UNCHANGED evidence
         PROVE AdoptersAreAlone'
  BY <1>10 DEF Discard
<1>11. ASSUME NEW o \in Operators, Unmark(o) /\ UNCHANGED evidence
         PROVE AdoptersAreAlone'
  BY <1>11 DEF Unmark
<1>12. ASSUME NEW o \in Operators, Finish(o) PROVE AdoptersAreAlone'
  BY <1>12 DEF Finish
<1>13. ASSUME NEW o \in Operators, WritePlan(o) PROVE AdoptersAreAlone'
  BY <1>13 DEF WritePlan
<1>14. ASSUME NEW o \in Operators, WritePolicy(o) PROVE AdoptersAreAlone'
  BY <1>14 DEF WritePolicy
<1>15. ASSUME NEW o \in Operators, StepFails(o) /\ UNCHANGED evidence
         PROVE AdoptersAreAlone'
  BY <1>15 DEF StepFails
<1>16. ASSUME NEW o \in Operators, Dies(o) /\ UNCHANGED evidence PROVE AdoptersAreAlone'
  BY <1>16 DEF Dies
<1>17. ASSUME NEW e \in HostEntries, EditHost(e), UNCHANGED evidence
         PROVE AdoptersAreAlone'
  BY <1>17 DEF EditHost
<1>18. ASSUME NEW i \in Identities, FindEmpty(i), UNCHANGED evidence
         PROVE AdoptersAreAlone'
  BY <1>18 DEF FindEmpty
<1>19. ASSUME InitializeRoot, UNCHANGED evidence PROVE AdoptersAreAlone'
  BY <1>19 DEF InitializeRoot
<1>20. ASSUME ClearEvidence, UNCHANGED evidence PROVE AdoptersAreAlone'
  BY <1>20 DEF ClearEvidence
<1>21. CASE UNCHANGED vars
  BY <1>21 DEF vars, adoptionVars
<1>22. ASSUME NEW o \in Operators, DiesWriting(o) PROVE AdoptersAreAlone'
  BY <1>22 DEF DiesWriting, Dies
<1>23. QED
  BY <1>1, <1>2, <1>3, <1>4, <1>5, <1>6, <1>7, <1>8, <1>9, <1>10, <1>11, <1>12, <1>13,
       <1>14, <1>15, <1>16, <1>17, <1>18, <1>19, <1>20, <1>21, <1>22 DEF Next, Confirm,
       Command, Adopt, Others

\* Nobody else touches what a command is building.
LEMMA StagingStep ==
  ASSUME IInv, [Next]_vars
  PROVE  StagingInv'
<1> USE AdoptionAssumption DEF IInv, TypeOK, AdoptionTypeOK, StagingInv, AtWork,
        Stages, Step, Stop, Fault, commands, bounds, root, others, evidence
<1>1. ASSUME NEW o \in Operators, Review(o) /\ UNCHANGED evidence PROVE StagingInv'
  BY <1>1 DEF Review
<1>2. ASSUME NEW o \in Operators, ConfirmOnboarding(o) PROVE StagingInv'
  BY <1>2 DEF ConfirmOnboarding
<1>3. ASSUME NEW o \in Operators, Replan(o) /\ UNCHANGED evidence PROVE StagingInv'
  BY <1>3 DEF Replan
<1>4. ASSUME NEW o \in Operators, Refuse(o) /\ UNCHANGED evidence PROVE StagingInv'
  BY <1>4 DEF Refuse
<1>5. ASSUME NEW o \in Operators, TakeMarker(o) /\ UNCHANGED evidence PROVE StagingInv'
  BY <1>5 DEF TakeMarker
<1>6. ASSUME NEW o \in Operators, CheckRoot(o) /\ UNCHANGED evidence PROVE StagingInv'
  BY <1>6 DEF CheckRoot
<1>7. ASSUME NEW o \in Operators, BuildStore(o) /\ UNCHANGED evidence PROVE StagingInv'
  BY <1>7 DEF BuildStore, ProjectType
<1>8. ASSUME NEW o \in Operators, WriteReceipt(o) /\ UNCHANGED evidence
         PROVE StagingInv'
  BY <1>8 DEF WriteReceipt, ProjectType, NoProject
<1>9. ASSUME NEW o \in Operators, Rename(o) /\ UNCHANGED evidence PROVE StagingInv'
  BY <1>9 DEF Rename
<1>10. ASSUME NEW o \in Operators, Discard(o) /\ UNCHANGED evidence PROVE StagingInv'
  BY <1>10 DEF Discard
<1>11. ASSUME NEW o \in Operators, Unmark(o) /\ UNCHANGED evidence PROVE StagingInv'
  BY <1>11 DEF Unmark
<1>12. ASSUME NEW o \in Operators, Finish(o) PROVE StagingInv'
  BY <1>12 DEF Finish
<1>13. ASSUME NEW o \in Operators, WritePlan(o) PROVE StagingInv'
  BY <1>13 DEF WritePlan
<1>14. ASSUME NEW o \in Operators, WritePolicy(o) PROVE StagingInv'
  BY <1>14 DEF WritePolicy
<1>15. ASSUME NEW o \in Operators, StepFails(o) /\ UNCHANGED evidence PROVE StagingInv'
  BY <1>15 DEF StepFails
<1>16. ASSUME NEW o \in Operators, Dies(o) /\ UNCHANGED evidence PROVE StagingInv'
  BY <1>16 DEF Dies
<1>17. ASSUME NEW e \in HostEntries, EditHost(e), UNCHANGED evidence PROVE StagingInv'
  BY <1>17 DEF EditHost
<1>18. ASSUME NEW i \in Identities, FindEmpty(i), UNCHANGED evidence PROVE StagingInv'
  BY <1>18 DEF FindEmpty
<1>19. ASSUME InitializeRoot, UNCHANGED evidence PROVE StagingInv'
  BY <1>19 DEF InitializeRoot
<1>20. ASSUME ClearEvidence, UNCHANGED evidence PROVE StagingInv'
  BY <1>20 DEF ClearEvidence
<1>21. CASE UNCHANGED vars
  BY <1>21 DEF vars, adoptionVars
<1>22. ASSUME NEW o \in Operators, DiesWriting(o) PROVE StagingInv'
  BY <1>22 DEF DiesWriting, Dies
<1>23. QED
  BY <1>1, <1>2, <1>3, <1>4, <1>5, <1>6, <1>7, <1>8, <1>9, <1>10, <1>11, <1>12, <1>13,
       <1>14, <1>15, <1>16, <1>17, <1>18, <1>19, <1>20, <1>21, <1>22 DEF Next, Confirm,
       Command, Adopt, Others

\* A sidecar comes complete with its receipt, and stays.
LEMMA SidecarStep ==
  ASSUME IInv, [Next]_vars
  PROVE  (AdoptedInv /\ AdoptionAuditPasses)'
<1> USE AdoptionAssumption DEF IInv, TypeOK, AdoptionTypeOK, AdoptedInv,
        AdoptionAuditPasses, AtWork, Stages, Step, Stop, Fault, commands, bounds,
        root, others, evidence
<1>1. ASSUME NEW o \in Operators, Review(o) /\ UNCHANGED evidence
         PROVE (AdoptedInv /\ AdoptionAuditPasses)'
  BY <1>1 DEF Review
<1>2. ASSUME NEW o \in Operators, ConfirmOnboarding(o)
         PROVE (AdoptedInv /\ AdoptionAuditPasses)'
  <2>1. pc'[o] = "adopted" =>
          sidecar # NoProject /\ sidecar.identity = Identity[o] /\ agreed'[o].status # "safe"
    BY <1>2, ReadyPlans DEF ConfirmOnboarding, OnboardingPlan
  <2>2. QED
    BY <1>2, <2>1 DEF ConfirmOnboarding
<1>3. ASSUME NEW o \in Operators, Replan(o) /\ UNCHANGED evidence
         PROVE (AdoptedInv /\ AdoptionAuditPasses)'
  BY <1>3 DEF Replan
<1>4. ASSUME NEW o \in Operators, Refuse(o) /\ UNCHANGED evidence
         PROVE (AdoptedInv /\ AdoptionAuditPasses)'
  BY <1>4 DEF Refuse
<1>5. ASSUME NEW o \in Operators, TakeMarker(o) /\ UNCHANGED evidence
         PROVE (AdoptedInv /\ AdoptionAuditPasses)'
  BY <1>5 DEF TakeMarker
<1>6. ASSUME NEW o \in Operators, CheckRoot(o) /\ UNCHANGED evidence
         PROVE (AdoptedInv /\ AdoptionAuditPasses)'
  BY <1>6 DEF CheckRoot
<1>7. ASSUME NEW o \in Operators, BuildStore(o) /\ UNCHANGED evidence
         PROVE (AdoptedInv /\ AdoptionAuditPasses)'
  BY <1>7 DEF BuildStore
<1>8. ASSUME NEW o \in Operators, WriteReceipt(o) /\ UNCHANGED evidence
         PROVE (AdoptedInv /\ AdoptionAuditPasses)'
  BY <1>8 DEF WriteReceipt
<1>9. ASSUME NEW o \in Operators, Rename(o) /\ UNCHANGED evidence
         PROVE (AdoptedInv /\ AdoptionAuditPasses)'
  <2>1. sidecar' = [identity |-> Identity[o], receipt |-> agreed[o]]
    BY <1>9 DEF Rename, StagingInv
  <2>2. agreed[o] # NoPlan /\ agreed[o].identity = Identity[o]
    BY <1>9 DEF Rename, AgreedInv
  <2>3. sidecar' # NoProject
    BY <2>1 DEF NoProject
  <2>4. \A p \in Operators : pc[p] \notin {"renamed", "adopted", "policy"}
    BY <1>9 DEF Rename
  <2>5. QED
    BY <1>9, <2>1, <2>2, <2>3, <2>4 DEF Rename
<1>10. ASSUME NEW o \in Operators, Discard(o) /\ UNCHANGED evidence
         PROVE (AdoptedInv /\ AdoptionAuditPasses)'
  BY <1>10 DEF Discard
<1>11. ASSUME NEW o \in Operators, Unmark(o) /\ UNCHANGED evidence
         PROVE (AdoptedInv /\ AdoptionAuditPasses)'
  BY <1>11 DEF Unmark
<1>12. ASSUME NEW o \in Operators, Finish(o) PROVE (AdoptedInv /\ AdoptionAuditPasses)'
  BY <1>12 DEF Finish
<1>13. ASSUME NEW o \in Operators, WritePlan(o)
         PROVE (AdoptedInv /\ AdoptionAuditPasses)'
  BY <1>13 DEF WritePlan
<1>14. ASSUME NEW o \in Operators, WritePolicy(o)
         PROVE (AdoptedInv /\ AdoptionAuditPasses)'
  BY <1>14 DEF WritePolicy
<1>15. ASSUME NEW o \in Operators, StepFails(o) /\ UNCHANGED evidence
         PROVE (AdoptedInv /\ AdoptionAuditPasses)'
  BY <1>15 DEF StepFails
<1>16. ASSUME NEW o \in Operators, Dies(o) /\ UNCHANGED evidence
         PROVE (AdoptedInv /\ AdoptionAuditPasses)'
  BY <1>16 DEF Dies
<1>17. ASSUME NEW e \in HostEntries, EditHost(e), UNCHANGED evidence
         PROVE (AdoptedInv /\ AdoptionAuditPasses)'
  BY <1>17 DEF EditHost
<1>18. ASSUME NEW i \in Identities, FindEmpty(i), UNCHANGED evidence
         PROVE (AdoptedInv /\ AdoptionAuditPasses)'
  BY <1>18 DEF FindEmpty
<1>19. ASSUME InitializeRoot, UNCHANGED evidence
         PROVE (AdoptedInv /\ AdoptionAuditPasses)'
  BY <1>19 DEF InitializeRoot
<1>20. ASSUME ClearEvidence, UNCHANGED evidence
         PROVE (AdoptedInv /\ AdoptionAuditPasses)'
  BY <1>20 DEF ClearEvidence
<1>21. CASE UNCHANGED vars
  BY <1>21 DEF vars, adoptionVars
<1>22. ASSUME NEW o \in Operators, DiesWriting(o) PROVE (AdoptedInv /\ AdoptionAuditPasses)'
  BY <1>22 DEF DiesWriting, Dies
<1>23. QED
  BY <1>1, <1>2, <1>3, <1>4, <1>5, <1>6, <1>7, <1>8, <1>9, <1>10, <1>11, <1>12, <1>13,
       <1>14, <1>15, <1>16, <1>17, <1>18, <1>19, <1>20, <1>21, <1>22 DEF Next, Confirm,
       Command, Adopt, Others

\* Evidence comes after the sidecar, and a decision after its plan.
LEMMA EvidenceStep ==
  ASSUME IInv, [Next]_vars
  PROVE  (EvidenceInv /\ EvidenceIsSound)'
<1> USE AdoptionAssumption, OnboardingAssumption DEF IInv, TypeOK, AdoptionTypeOK,
        EvidenceInv, EvidenceIsSound, DecisionIsBound, ReviewedPlan, AtWork,
        Stages, Step, Stop, Fault, commands, bounds, root, others, evidence
<1>1. ASSUME NEW o \in Operators, Review(o) /\ UNCHANGED evidence
         PROVE (EvidenceInv /\ EvidenceIsSound)'
  BY <1>1 DEF Review
<1>2. ASSUME NEW o \in Operators, ConfirmOnboarding(o)
         PROVE (EvidenceInv /\ EvidenceIsSound)'
  BY <1>2 DEF ConfirmOnboarding
<1>3. ASSUME NEW o \in Operators, Replan(o) /\ UNCHANGED evidence
         PROVE (EvidenceInv /\ EvidenceIsSound)'
  BY <1>3 DEF Replan
<1>4. ASSUME NEW o \in Operators, Refuse(o) /\ UNCHANGED evidence
         PROVE (EvidenceInv /\ EvidenceIsSound)'
  BY <1>4 DEF Refuse
<1>5. ASSUME NEW o \in Operators, TakeMarker(o) /\ UNCHANGED evidence
         PROVE (EvidenceInv /\ EvidenceIsSound)'
  BY <1>5 DEF TakeMarker
<1>6. ASSUME NEW o \in Operators, CheckRoot(o) /\ UNCHANGED evidence
         PROVE (EvidenceInv /\ EvidenceIsSound)'
  BY <1>6 DEF CheckRoot
<1>7. ASSUME NEW o \in Operators, BuildStore(o) /\ UNCHANGED evidence
         PROVE (EvidenceInv /\ EvidenceIsSound)'
  BY <1>7 DEF BuildStore
<1>8. ASSUME NEW o \in Operators, WriteReceipt(o) /\ UNCHANGED evidence
         PROVE (EvidenceInv /\ EvidenceIsSound)'
  BY <1>8 DEF WriteReceipt
<1>9. ASSUME NEW o \in Operators, Rename(o) /\ UNCHANGED evidence
         PROVE (EvidenceInv /\ EvidenceIsSound)'
  <2>1. plans = {} /\ decision = NoDecision /\ \A p \in Operators : pc[p] # "policy"
    BY <1>9 DEF Rename, AdoptedInv
  <2>2. QED
    BY <1>9, <2>1 DEF Rename
<1>10. ASSUME NEW o \in Operators, Discard(o) /\ UNCHANGED evidence
         PROVE (EvidenceInv /\ EvidenceIsSound)'
  BY <1>10 DEF Discard
<1>11. ASSUME NEW o \in Operators, Unmark(o) /\ UNCHANGED evidence
         PROVE (EvidenceInv /\ EvidenceIsSound)'
  BY <1>11 DEF Unmark
<1>12. ASSUME NEW o \in Operators, Finish(o)
         PROVE (EvidenceInv /\ EvidenceIsSound)'
  BY <1>12 DEF Finish
<1>13. ASSUME NEW o \in Operators, WritePlan(o)
         PROVE (EvidenceInv /\ EvidenceIsSound)'
  <2>1. agreed[o] \in PlanType /\ Policy[o] \in Choices /\ agreed[o].identity = Identity[o]
        /\ sidecar # NoProject /\ sidecar.identity = Identity[o]
    BY <1>13 DEF WritePlan, MayDecide, AgreedInv, AdoptedInv
  <2>2. PlanIsValid(ReviewedPlan(o))
    BY <2>1, ReviewedPlans
  <2>3. QED
    BY <1>13, <2>1, <2>2 DEF WritePlan, MayDecide
<1>14. ASSUME NEW o \in Operators, WritePolicy(o)
         PROVE (EvidenceInv /\ EvidenceIsSound)'
  <2>1. agreed[o].identity = Identity[o] /\ sidecar.identity = Identity[o]
    BY <1>14 DEF WritePolicy, AgreedInv, AdoptedInv
  <2>2. QED
    BY <1>14, <2>1 DEF WritePolicy, NewDecision
<1>15. ASSUME NEW o \in Operators, StepFails(o) /\ UNCHANGED evidence
         PROVE (EvidenceInv /\ EvidenceIsSound)'
  BY <1>15 DEF StepFails
<1>16. ASSUME NEW o \in Operators, Dies(o) /\ UNCHANGED evidence
         PROVE (EvidenceInv /\ EvidenceIsSound)'
  BY <1>16 DEF Dies
<1>17. ASSUME NEW e \in HostEntries, EditHost(e), UNCHANGED evidence
         PROVE (EvidenceInv /\ EvidenceIsSound)'
  BY <1>17 DEF EditHost
<1>18. ASSUME NEW i \in Identities, FindEmpty(i), UNCHANGED evidence
         PROVE (EvidenceInv /\ EvidenceIsSound)'
  BY <1>18 DEF FindEmpty
<1>19. ASSUME InitializeRoot, UNCHANGED evidence
         PROVE (EvidenceInv /\ EvidenceIsSound)'
  BY <1>19 DEF InitializeRoot
<1>20. ASSUME ClearEvidence, UNCHANGED evidence
         PROVE (EvidenceInv /\ EvidenceIsSound)'
  BY <1>20 DEF ClearEvidence
<1>21. CASE UNCHANGED vars
  BY <1>21 DEF vars, adoptionVars
<1>22. ASSUME NEW o \in Operators, DiesWriting(o) PROVE (EvidenceInv /\ EvidenceIsSound)'
  BY <1>22 DEF DiesWriting, Dies
<1>23. QED
  BY <1>1, <1>2, <1>3, <1>4, <1>5, <1>6, <1>7, <1>8, <1>9, <1>10, <1>11, <1>12, <1>13,
       <1>14, <1>15, <1>16, <1>17, <1>18, <1>19, <1>20, <1>21, <1>22 DEF Next, Confirm,
       Command, Adopt, Others

\* The strengthened invariant holds at first and after every step.
LEMMA Initially ==
  Init => IInv
<1> USE AdoptionAssumption
<1> SUFFICES ASSUME Init PROVE IInv
  OBVIOUS
<1>1. TypeOK
  <2>1. plans \subseteq OnboardingPlanType /\ decision \in Decisions \cup {NoDecision}
    BY DEF Init
  <2>2. /\ staging \in [Operators -> ProjectType \cup {NoProject}]
        /\ agreed \in [Operators -> PlanType \cup {NoPlan}]
        /\ pc \in [Operators -> Stages \cup {"policy"}]
    BY DEF Init, AdoptionInit, Stages
  <2>3. faults \in 0..MaxFaults /\ edits \in 0..MaxEdits
    BY DEF Init, AdoptionInit
  <2>4. QED
    BY <2>1, <2>2, <2>3 DEF Init, AdoptionInit, TypeOK, AdoptionTypeOK
<1>2. AgreedInv /\ AdoptersAreAlone /\ StagingInv /\ AdoptedInv /\ EvidenceInv
  BY DEF Init, AdoptionInit, AgreedInv, AdoptersAreAlone, StagingInv, AdoptedInv,
         EvidenceInv, AtWork
<1>3. AdoptionAuditPasses /\ EvidenceIsSound
  BY DEF Init, AdoptionInit, AdoptionAuditPasses, EvidenceIsSound
<1>4. QED
  BY <1>1, <1>2, <1>3 DEF IInv

\* The strengthened invariant holds in every state that adoption and onboarding reach.
THEOREM Inductive ==
  Spec => []IInv
<1>1. IInv /\ [Next]_vars => IInv'
  BY TypeStep, AgreedStep, AloneStep, StagingStep, SidecarStep, EvidenceStep DEF IInv
<1>2. QED
  BY <1>1, Initially, PTL DEF Spec

-----------------------------------------------------------------------------
(* Theorems                                                                *)

\* Every variable of adoption and onboarding keeps its type.
THEOREM OnboardingTypeCorrect ==
  Spec => []TypeOK
<1>1. IInv => TypeOK
  BY DEF IInv
<1>2. QED
  BY <1>1, Inductive, PTL

\* apply_project_adoption: an adoption at work is alone under its marker, and
\* from its check of the root on its staging directory is the only one, whatever
\* other commands refuse, fail at, discard or leave behind.
THEOREM AdoptersAlwaysAlone ==
  Spec => []AdoptersAreAlone
<1>1. IInv => AdoptersAreAlone
  BY DEF IInv
<1>2. QED
  BY <1>1, Inductive, PTL

\* After every step of every command, wherever it stops, audit_adoption passes
\* and audit_onboarding can report nothing but the temporary file of a write
\* that died: the sidecar has its receipt, the decision its plan.
THEOREM OnlyStraysReported ==
  Spec => []AuditsReportStraysOnly
<1>1. IInv => AuditsReportStraysOnly
  BY DEF IInv, AuditsReportStraysOnly, OnboardingErrors, EvidenceIsSound
<1>2. QED
  BY <1>1, Inductive, PTL

-----------------------------------------------------------------------------
(* Onboarding implements its promise                                       *)

\* The receipt and the decision that the abstract specification speaks of.
Receipt == IF sidecar = NoProject THEN None ELSE sidecar.receipt
Decision == IF decision = NoDecision THEN None ELSE decision

\* The rename puts a whole project in place, by the safe plan that it has in hand.
LEMMA RenameAdopts ==
  ASSUME IInv, NEW o \in Operators, Rename(o) /\ UNCHANGED evidence
  PROVE  Promise!Adopt
<1>1. /\ pc[o] = "receipted" /\ sidecar = NoProject /\ sidecar' = staging[o]
      /\ UNCHANGED decision
  BY DEF Rename, Step, evidence
<1>2. sidecar' = [identity |-> Identity[o], receipt |-> agreed[o]]
  BY <1>1 DEF IInv, StagingInv
<1>3. /\ agreed[o] \in PlanType /\ agreed[o] # NoPlan
      /\ agreed[o].status = "safe" /\ agreed[o].conflicts = {}
  BY <1>1 DEF IInv, TypeOK, AdoptionTypeOK, AgreedInv, AtWork
<1>4. sidecar' # NoProject /\ sidecar'.receipt = agreed[o]
  BY <1>2, <1>3 DEF NoProject
<1>5. QED
  BY <1>1, <1>3, <1>4 DEF Promise!Adopt

\* The decision that is written is bound to the sidecar's receipt, and replaces none.
LEMMA PolicyDecides ==
  ASSUME IInv, IInv', NEW o \in Operators, WritePolicy(o)
  PROVE  Promise!Decide \/ UNCHANGED <<Receipt, Decision>>
<1>1. /\ pc[o] = "policy" /\ UNCHANGED sidecar
      /\ decision' = IF decision = NoDecision THEN NewDecision(o) ELSE decision
  BY DEF WritePolicy, Stop, Step, root
<1>2. CASE decision' = decision
  BY <1>1, <1>2 DEF Receipt, Decision
<1>3. CASE decision = NoDecision /\ decision' # NoDecision
  <2>1. /\ sidecar # NoProject /\ sidecar.identity = Identity[o]
        /\ agreed[o].identity = Identity[o]
        /\ agreed[o].status = "safe" => sidecar.receipt = agreed[o]
    BY <1>1 DEF IInv, AdoptedInv, AgreedInv
  <2>2. sidecar.receipt \in PlanType /\ sidecar.receipt.identity = sidecar.identity
    BY <2>1 DEF IInv, TypeOK, AdoptionTypeOK, ProjectType, AdoptionAuditPasses
  <2>3. decision' \in Decisions /\ decision'.adoption = agreed[o]
    BY <1>1, <1>3 DEF IInv, TypeOK, NewDecision
  <2>4. sidecar.receipt # None
    BY <2>2, NoPlanAssumption
  <2>5. QED
    BY <1>1, <1>3, <2>1, <2>2, <2>3, <2>4 DEF Promise!Decide, Promise!Bound
<1>4. QED
  BY <1>1, <1>2, <1>3

\* Every step is an adoption, a decision, or one that the promise does not see.
LEMMA PromiseStep ==
  ASSUME IInv, IInv', [Next]_vars
  PROVE  [Promise!Next]_<<Receipt, Decision>>
<1> USE DEF commands, bounds, root, others, evidence
<1>1. ASSUME UNCHANGED <<sidecar, decision>> PROVE UNCHANGED <<Receipt, Decision>>
  BY <1>1 DEF Receipt, Decision
<1>2. ASSUME NEW o \in Operators, Rename(o) /\ UNCHANGED evidence
      PROVE  [Promise!Next]_<<Receipt, Decision>>
  BY <1>2, RenameAdopts DEF Promise!Next
<1>3. ASSUME NEW o \in Operators, WritePolicy(o)
      PROVE  [Promise!Next]_<<Receipt, Decision>>
  BY <1>3, PolicyDecides DEF Promise!Next
<1>4. ASSUME NEW o \in Operators, Confirm(o) PROVE UNCHANGED <<sidecar, decision>>
  BY <1>4 DEF Confirm, Review, ConfirmOnboarding
<1>5. ASSUME NEW o \in Operators, Adopt(o) /\ UNCHANGED evidence, ~Rename(o)
      PROVE  UNCHANGED <<sidecar, decision>>
  BY <1>5 DEF Adopt, Replan, Refuse, TakeMarker, CheckRoot, BuildStore, WriteReceipt,
              Discard, Unmark
<1>6. ASSUME NEW o \in Operators, Finish(o) \/ WritePlan(o)
      PROVE  UNCHANGED <<sidecar, decision>>
  BY <1>6 DEF Finish, WritePlan, Stop
<1>7. ASSUME Others, UNCHANGED evidence PROVE UNCHANGED <<sidecar, decision>>
  BY <1>7 DEF Others, StepFails, Dies, EditHost, FindEmpty, InitializeRoot, ClearEvidence
<1>8. ASSUME NEW o \in Operators, DiesWriting(o) PROVE UNCHANGED <<sidecar, decision>>
  BY <1>8 DEF DiesWriting, Dies
<1>9. CASE UNCHANGED vars
  BY <1>1, <1>9 DEF vars, adoptionVars
<1>10. QED
  BY <1>1, <1>2, <1>3, <1>4, <1>5, <1>6, <1>7, <1>8, <1>9 DEF Next, Command

\* Onboarding, with its staging, markers, races and deaths, implements its promise:
\* a project is adopted at most once, whole, by a safe plan for it, and one decision
\* is recorded, once, bound to that adoption.
THEOREM KeepsPromise ==
  Spec => ImplementsOnboarding
<1>1. Init => Promise!Init
  BY DEF Init, AdoptionInit, Promise!Init
<1>2. IInv /\ IInv' /\ [Next]_vars => [Promise!Next]_<<Receipt, Decision>>
  BY PromiseStep
<1>3. QED
  BY <1>1, <1>2, Inductive, PTL DEF Spec, ImplementsOnboarding, Promise!Spec, Receipt, Decision
=============================================================================
