----------------------------- MODULE Retention -----------------------------
(***************************************************************************)
(* The nightly maintenance of internal/maintenance: Prune deletes closed   *)
(* incidents older than the retention, and alerts of none, in one          *)
(* transaction.  The schema refers from alerts to incidents without a      *)
(* cascade, and the connection enforces foreign keys: a delete that would  *)
(* leave an alert behind fails, and the transaction with it.               *)
(*                                                                         *)
(* Ages are told apart up to one past the retention.                       *)
(***************************************************************************)
EXTENDS Integers

CONSTANTS
    Incident,
    Keep,       \* the retention, in ticks
    MaxAlerts   \* bound: alerts of an incident

VARIABLES
    status,     \* "none", "open", "closed" or "pruned", per incident
    age,        \* since the incident was closed
    alerts,     \* how many rows of alerts refer to the incident
    orphan      \* the age of the oldest alert that joined no incident, or None

reVars == <<status, age, alerts, orphan>>

None == -1
Older(n) == IF n > Keep THEN n ELSE n + 1

Init ==
    /\ status = [i \in Incident |-> "none"]
    /\ age = [i \in Incident |-> 0]
    /\ alerts = [i \in Incident |-> 0]
    /\ orphan = None

(* An incident is opened with its first alert, and joined by others.        *)
AttachAlert(i) ==
    /\ status[i] \in {"none", "open"}
    /\ alerts[i] < MaxAlerts
    /\ status' = [status EXCEPT ![i] = "open"]
    /\ alerts' = [alerts EXCEPT ![i] = @ + 1]
    /\ UNCHANGED <<age, orphan>>

(* A resolution for a group without an open incident.                       *)
StoreOrphan ==
    /\ orphan = None
    /\ orphan' = 0
    /\ UNCHANGED <<status, age, alerts>>

Close(i) ==
    /\ status[i] = "open"
    /\ status' = [status EXCEPT ![i] = "closed"]
    /\ UNCHANGED <<age, alerts, orphan>>

Old == {i \in Incident : status[i] = "closed" /\ age[i] > Keep}

(* Prune.  A foreign key that would be left dangling undoes all of it.      *)
Prune ==
    IF \E i \in Old : alerts[i] > 0
    THEN UNCHANGED <<status, orphan>>
    ELSE /\ status' = [i \in Incident |-> IF i \in Old THEN "pruned" ELSE status[i]]
         /\ orphan' = IF orphan > Keep THEN None ELSE orphan

(* RunOnce, at a tick of the maintenance loop.                              *)
RunOnce == Prune /\ UNCHANGED <<age, alerts>>

(* Time passes.                                                             *)
Tick ==
    /\ age' = [i \in Incident |-> IF status[i] = "closed" THEN Older(age[i]) ELSE 0]
    /\ orphan' = IF orphan = None THEN None ELSE Older(orphan)
    /\ UNCHANGED <<status, alerts>>

Next ==
    \/ \E i \in Incident : AttachAlert(i) \/ Close(i)
    \/ StoreOrphan
    \/ RunOnce
    \/ Tick

(* Fairness: the ticker of the maintenance loop.                            *)
FairSpec == Init /\ [][Next]_reVars /\ WF_reVars(RunOnce) /\ WF_reVars(Tick)

(* retention.go: "Prune deletes closed incidents older than the cutoff."    *)
OldIncidentsGo == \A i \in Incident : (i \in Old) ~> (status[i] = "pruned")
=============================================================================
