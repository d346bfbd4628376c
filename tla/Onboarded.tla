------------------------------ MODULE Onboarded ------------------------------
(***************************************************************************)
(* What onboarding promises, with no staging, markers or processes: a      *)
(* project is adopted at most once, whole, with the receipt of a safe plan *)
(* for it; and one decision about its sidecar is recorded, once, of a plan *)
(* that was for this project and, if it was to create the sidecar, for     *)
(* this very adoption.                                                     *)
(***************************************************************************)
CONSTANTS Plans, Decisions, None

VARIABLES receipt, decision

Init == receipt = None /\ decision = None

Adopt ==
  /\ receipt = None
  /\ receipt' \in Plans /\ receipt'.status = "safe" /\ receipt'.conflicts = {}
  /\ UNCHANGED decision

Bound(d) ==
  /\ d.adoption.identity = receipt.identity
  /\ d.adoption.status = "safe" => d.adoption = receipt

Decide ==
  /\ receipt # None /\ decision = None
  /\ decision' \in Decisions /\ Bound(decision')
  /\ UNCHANGED receipt

Next == Adopt \/ Decide

Spec == Init /\ [][Next]_<<receipt, decision>>
=============================================================================
