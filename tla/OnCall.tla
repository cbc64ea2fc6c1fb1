------------------------------- MODULE OnCall -------------------------------
(***************************************************************************)
(* What Kerberon promises about one incident, without timers, transactions *)
(* or configuration: a ladder of rungs is climbed one at a time while      *)
(* nobody has taken the incident, an acknowledgement stops the climb, an   *)
(* acknowledgement that goes stale resumes it on the next rung, and the    *)
(* incident ends resolved or, when the ladder is used up, expired.         *)
(*                                                                         *)
(* docs: the state machine of internal/core (IncidentStatus) and the       *)
(* package comment of internal/escalate ("each escalation step fires       *)
(* exactly once even across a crash").  Paging implements this module.     *)
(***************************************************************************)
EXTENDS Naturals

CONSTANT Incident

VARIABLES
    phase,   \* where the incident is in its life
    climbed, \* rungs that have fired
    ladder   \* rungs there are, 0 until the first one fires

ocVars == <<phase, climbed, ladder>>

OCInit ==
    /\ phase = [i \in Incident |-> "none"]
    /\ climbed = [i \in Incident |-> 0]
    /\ ladder = [i \in Incident |-> 0]

Raise(i) ==
    /\ phase[i] = "none"
    /\ phase' = [phase EXCEPT ![i] = "triggered"]
    /\ UNCHANGED <<climbed, ladder>>

FirstRung(i) ==
    /\ phase[i] = "triggered"
    /\ ladder[i] = 0
    /\ ladder'[i] \in Nat \ {0}
    /\ ladder' = [ladder EXCEPT ![i] = ladder'[i]]
    /\ climbed' = [climbed EXCEPT ![i] = 1]
    /\ UNCHANGED phase

NextRung(i) ==
    /\ phase[i] = "triggered"
    /\ 0 < climbed[i] /\ climbed[i] < ladder[i]
    /\ climbed' = [climbed EXCEPT ![i] = climbed[i] + 1]
    /\ UNCHANGED <<phase, ladder>>

Take(i) ==
    /\ phase[i] = "triggered"
    /\ phase' = [phase EXCEPT ![i] = "acknowledged"]
    /\ UNCHANGED <<climbed, ladder>>

Resume(i) ==
    /\ phase[i] = "acknowledged"
    /\ 0 < climbed[i] /\ climbed[i] < ladder[i]
    /\ phase' = [phase EXCEPT ![i] = "triggered"]
    /\ climbed' = [climbed EXCEPT ![i] = climbed[i] + 1]
    /\ UNCHANGED ladder

GiveUp(i) ==
    /\ phase[i] \in {"triggered", "acknowledged"}
    /\ 0 < ladder[i] /\ climbed[i] = ladder[i]
    /\ phase' = [phase EXCEPT ![i] = "expired"]
    /\ UNCHANGED <<climbed, ladder>>

Close(i) ==
    /\ phase[i] \in {"triggered", "acknowledged"}
    /\ phase' = [phase EXCEPT ![i] = "resolved"]
    /\ UNCHANGED <<climbed, ladder>>

OCNext ==
    \E i \in Incident :
        \/ Raise(i) \/ FirstRung(i) \/ NextRung(i) \/ Take(i)
        \/ Resume(i) \/ GiveUp(i) \/ Close(i)

OCSpec == OCInit /\ [][OCNext]_ocVars
=============================================================================
