-------------------------- MODULE EscalationPolicy --------------------------
(***************************************************************************)
(* The pure arithmetic of an escalation policy: internal/escalate/policy.go.*)
(*                                                                         *)
(* A policy is abstracted to what decides the course of an escalation: how *)
(* many steps it has, how often it repeats, and whether an acknowledgement *)
(* times out.  Delays, targets and channels only choose *when* and *whom*, *)
(* and are left to the modules that use this one.                          *)
(***************************************************************************)
EXTENDS Naturals

(* Configuration validation refuses a policy without steps, and             *)
(* DecodePolicy refuses a snapshot without steps.                           *)
Policy == [steps: Nat \ {0}, repeat: Nat, ackTimeout: BOOLEAN]

TotalPasses(p) == IF p.repeat < 1 THEN 1 ELSE p.repeat

(* The number of rungs a policy climbs before the incident expires.         *)
Rungs(p) == p.steps * TotalPasses(p)

(* Mutant: the last rung never fires.                                       *)
ExhaustedEarly(p, index) == index + 1 >= Rungs(p)

(* StepAt(index) answers ok exactly on these indices; otherwise the policy  *)
(* is exhausted.                                                            *)
Exhausted(p, index) == index >= Rungs(p)

(* What StepAt returns on an index that is not exhausted.                   *)
StepAt(p, index) == [step |-> index % p.steps, pass |-> index \div p.steps]
=============================================================================
