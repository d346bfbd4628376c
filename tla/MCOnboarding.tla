---------------------------- MODULE MCOnboarding ----------------------------
(* Two operators race to onboard one project, each with a disposition of   *)
(* its own, while a third adopts the same root for another project.        *)
EXTENDS Onboarding

CONSTANTS o1, o2, o3, i1, i2, h1

MCIdentity == [o \in Operators |-> IF o = o3 THEN i2 ELSE i1]
MCPolicy == [o \in Operators |->
  CASE o = o1 -> "tracked" [] o = o2 -> "local" [] OTHER -> None]
MCRole == [o \in Operators |-> IF o = o2 THEN "owner" ELSE "maintainer"]
=============================================================================
