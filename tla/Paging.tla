------------------------------- MODULE Paging -------------------------------
(***************************************************************************)
(* The core of Kerberon: incidents, the durable timers that move them, and *)
(* the outbox rows an escalation enqueues.  It composes                    *)
(*   - grouping    (internal/group: ingest, group_wait, resolve grace),    *)
(*   - escalation  (internal/escalate: steps, acknowledge, ack timeout),   *)
(*   - the manual resolution of internal/store,                            *)
(*   - the timer scheduler (internal/timer), reduced to its two steps:     *)
(*     select a pending timer outside any transaction, then execute it in  *)
(*     one transaction that re-checks it.                                  *)
(*                                                                         *)
(* The store has a single writer, so each db.Tx is one action.  What does  *)
(* interleave is everything between two transactions: an acknowledgement,  *)
(* a resolution, an alert, a reload or a crash may fall between the        *)
(* scheduler's selection of a timer and its execution.                     *)
(*                                                                         *)
(* There is no clock here.  Every delay is a configured duration without a *)
(* relation to the others, so any pending timer may be the next one due;   *)
(* module TimerScheduler models fire_at and the loop that waits for it.    *)
(***************************************************************************)
EXTENDS EscalationPolicy, FiniteSets, Sequences

CONSTANTS
    Incident,      \* incident row ids
    GroupKey,      \* what a route computes from an alert's labels
    Fingerprint,   \* the identity of an alert within a group
    Recipient,     \* a (user, channel) pair a step may page
    TimerId,       \* ids of timer rows that are pending or still referred to
    PolicyName,    \* names of escalation policies
    PolicyTable,   \* configurations a reload may install: name -> policy
    None           \* no policy, no timer, an empty column

Status == {"none", "triggered", "acknowledged", "resolved", "expired"}
Open == {"triggered", "acknowledged"}
AlertStatus == {"firing", "resolved"}
TimerKind == {"escalate", "group_wait", "resolve_timeout", "repeat"}
Timer == [incident: Incident, kind: TimerKind, step: Nat]
Notification ==
    [incident: Incident, step: Nat, pass: Nat, to: Recipient]

ASSUME PolicyTableAssumption ==
    PolicyTable \subseteq [PolicyName -> Policy \cup {None}]
ASSUME NoneAssumption ==
    None \notin Policy /\ None \notin TimerId /\ None \notin Timer

VARIABLES
    status,        \* incidents.status, "none" before the row exists
    groupKey,      \* incidents.group_key
    policyName,    \* incidents.policy
    snapshot,      \* incidents.policy_snapshot, None while empty
    currentStep,   \* incidents.current_step
    latest,        \* status of the newest alert per incident and fingerprint
    timers,        \* the pending rows of the timers table
    notifications, \* the rows of the outbox, as their idempotency keys
    notified,      \* the steps of each incident's 'notified' timeline events
    policies,      \* the policies a reload last stored
    selected       \* the timer the scheduler is about to execute

incidentVars == <<status, groupKey, policyName, snapshot, currentStep>>
pageVars == <<notifications, notified>>
vars == <<incidentVars, latest, timers, pageVars, policies, selected>>

TypeOK ==
    /\ status \in [Incident -> Status]
    /\ groupKey \in [Incident -> GroupKey \cup {None}]
    /\ policyName \in [Incident -> PolicyName \cup {None}]
    /\ snapshot \in [Incident -> Policy \cup {None}]
    /\ currentStep \in [Incident -> Nat]
    /\ latest \in [Incident -> [Fingerprint -> AlertStatus \cup {"none"}]]
    /\ timers \in [TimerId -> Timer \cup {None}]
    /\ notifications \subseteq Notification
    /\ notified \in [Incident -> Seq(Nat)]
    /\ policies \in PolicyTable
    /\ selected \in TimerId \cup {None}

-----------------------------------------------------------------------------
(* Queries and updates of the timers table (internal/store/timers.go).  A   *)
(* completed or a cancelled row is never pending again and no query here    *)
(* returns it, so it is not kept.                                           *)

Pending(t) == timers[t] # None

PendingOf(i, kinds) ==
    {t \in TimerId : Pending(t) /\ timers[t].incident = i
                                /\ timers[t].kind \in kinds}

(* An id for InsertTimer: no pending row has it, and the scheduler holds no *)
(* reference to the row that had it last (rows are never deleted while the  *)
(* process runs, so a real id is never reused at all).                      *)
FreshTimer(t) == ~Pending(t) /\ t # selected

(* Mutant: the timer is never marked completed.                             *)
CompleteForgotten(t, after) ==
    after[t] # None /\ timers' = after

(* CompleteTimer, after the handler has left the table at "after".  It      *)
(* refuses a timer its own handler cancelled, and the transaction then rolls*)
(* back (errSelfCancelled).                                                 *)
Complete(t, after) ==
    /\ after[t] # None
    /\ timers' = [after EXCEPT ![t] = None]

(* Mutant: the kinds are ignored, every timer of the incident is cancelled. *)
CancelledOfAllKinds(i, kinds, spared) ==
    [t \in TimerId |->
        IF t \in PendingOf(i, TimerKind) \ spared THEN None ELSE timers[t]]

(* CancelIncidentTimersExcept.  CancelIncidentTimers spares nothing.        *)
Cancelled(i, kinds, spared) ==
    [t \in TimerId |->
        IF t \in PendingOf(i, kinds) \ spared THEN None ELSE timers[t]]

(* Mutant: the payload names the rung before.                               *)
NewTimerOffByOne(i, kind, step) ==
    [incident |-> i, kind |-> kind, step |-> step - 1]

NewTimer(i, kind, step) == [incident |-> i, kind |-> kind, step |-> step]

-----------------------------------------------------------------------------
(* Queries of the incidents and alerts tables.                              *)

(* Mutant: an acknowledged incident no longer holds its group key.          *)
TriggeredIncidents(g) ==
    {i \in Incident : status[i] = "triggered" /\ groupKey[i] = g}

OpenIncidents(g) == {i \in Incident : status[i] \in Open /\ groupKey[i] = g}

(* Mutant: one resolved alert is enough.                                    *)
SomeAlertResolved(alerts) == \E f \in Fingerprint : alerts[f] = "resolved"

(* Every fingerprint's newest alert is resolved, and there is an alert.     *)
AllAlertsResolved(alerts) ==
    /\ \E f \in Fingerprint : alerts[f] # "none"
    /\ \A f \in Fingerprint : alerts[f] # "firing"

(* Updates of the incidents and alerts tables (internal/store).             *)

InsertIncident(i, g, name) ==
    /\ status[i] = "none"
    /\ status' = [status EXCEPT ![i] = "triggered"]
    /\ groupKey' = [groupKey EXCEPT ![i] = g]
    /\ policyName' = [policyName EXCEPT ![i] = name]

InsertAlert(i, f, alertStatus) ==
    latest' = [latest EXCEPT ![i][f] = alertStatus]

AcknowledgeIncident(i) ==
    /\ status[i] = "triggered"
    /\ status' = [status EXCEPT ![i] = "acknowledged"]

ResolveIncident(i) ==
    /\ status[i] \in Open
    /\ status' = [status EXCEPT ![i] = "resolved"]

-----------------------------------------------------------------------------
(* At startup the configuration has been validated: every policy a route    *)
(* names exists.                                                            *)
Init ==
    /\ status = [i \in Incident |-> "none"]
    /\ groupKey = [i \in Incident |-> None]
    /\ policyName = [i \in Incident |-> None]
    /\ snapshot = [i \in Incident |-> None]
    /\ currentStep = [i \in Incident |-> 0]
    /\ latest = [i \in Incident |-> [f \in Fingerprint |-> "none"]]
    /\ timers = [t \in TimerId |-> None]
    /\ notifications = {}
    /\ notified = [i \in Incident |-> <<>>]
    /\ policies \in {table \in PolicyTable : \A n \in PolicyName : table[n] # None}
    /\ selected = None

-----------------------------------------------------------------------------
(* Ingest (internal/group).  A chunk of alerts commits as one transaction;  *)
(* taking the alerts one by one allows every chunking and more.             *)

(* applyAlert, no open incident, firing alert: openIncident.  The insert is *)
(* not guarded by the unique index on open group keys: OneOpenIncident says *)
(* that the index never has anything to refuse.                             *)
OpenIncident(i, g, f, name) ==
    /\ OpenIncidents(g) = {}
    /\ InsertIncident(i, g, name)
    /\ InsertAlert(i, f, "firing")
    /\ \E t \in TimerId :
        /\ FreshTimer(t)
        /\ timers' = [timers EXCEPT ![t] = NewTimer(i, "group_wait", 0)]
    /\ UNCHANGED <<snapshot, currentStep, pageVars, policies, selected>>

(* Mutant: a re-fire leaves the grace window open.                          *)
AttachFiringKeepsGrace(i, f) ==
    /\ status[i] \in Open
    /\ InsertAlert(i, f, "firing")
    /\ UNCHANGED <<incidentVars, timers, pageVars, policies, selected>>

(* attachToIncident, firing alert: a re-fire cancels a pending resolution.  *)
AttachFiring(i, f) ==
    /\ status[i] \in Open
    /\ InsertAlert(i, f, "firing")
    /\ timers' = Cancelled(i, {"resolve_timeout"}, {})
    /\ UNCHANGED <<incidentVars, pageVars, policies, selected>>

(* attachToIncident, resolved alert: once every alert has resolved, the     *)
(* grace window starts anew.                                                *)
AttachResolved(i, f) ==
    /\ status[i] \in Open
    /\ InsertAlert(i, f, "resolved")
    /\ IF AllAlertsResolved(latest'[i])
       THEN \E t \in TimerId :
                /\ FreshTimer(t)
                /\ timers' = [Cancelled(i, {"resolve_timeout"}, {}) EXCEPT
                                ![t] = NewTimer(i, "resolve_timeout", 0)]
       ELSE UNCHANGED timers
    /\ UNCHANGED <<incidentVars, pageVars, policies, selected>>

(* A resolved alert without an open incident is only stored for the record. *)
Ingest(g, f) ==
    \/ \E i \in Incident, name \in PolicyName : OpenIncident(i, g, f, name)
    \/ \E i \in OpenIncidents(g) : AttachFiring(i, f) \/ AttachResolved(i, f)

-----------------------------------------------------------------------------
(* Escalation (internal/escalate).                                          *)

(* Mutant: running out of rungs is only logged.                             *)
ExpireSilently(t, i) ==
    /\ Complete(t, timers)
    /\ UNCHANGED <<status, snapshot, currentStep, pageVars>>

(* expire: nobody answered.                                                 *)
Expire(t, i) ==
    /\ status' = [status EXCEPT ![i] = "expired"]
    /\ Complete(t, timers)
    /\ UNCHANGED <<snapshot, currentStep, pageVars>>

(* The rungs of fireStep: page whoever the step resolves to at this moment, *)
(* possibly nobody, and schedule the next rung, or the expiry after the     *)
(* last one.                                                                *)
PageStep(t, i, policy, index) ==
    /\ \E to \in SUBSET Recipient :
        notifications' = notifications \cup
            {[incident |-> i, step |-> index,
              pass |-> StepAt(policy, index).pass, to |-> r] : r \in to}
    /\ \E next \in TimerId :
        /\ FreshTimer(next)
        /\ Complete(t, [timers EXCEPT ![next] = NewTimer(i, "escalate", index + 1)])
    /\ status' = [status EXCEPT ![i] = "triggered"]
    /\ snapshot' = [snapshot EXCEPT ![i] = policy]
    /\ currentStep' = [currentStep EXCEPT ![i] = index]
    /\ notified' = [notified EXCEPT ![i] = Append(@, index)]

FireStep(t, i, policy, index) ==
    IF Exhausted(policy, index)
    THEN Expire(t, i)
    ELSE PageStep(t, i, policy, index)

(* A handler that has nothing to do leaves its timer completed.             *)
CompleteOnly(t) ==
    /\ Complete(t, timers)
    /\ UNCHANGED <<status, snapshot, currentStep, pageVars>>

(* Mutant: the status is not checked when group_wait closes.                *)
HandleGroupWaitUnchecked(t, i) ==
    IF policies[policyName[i]] # None
    THEN FireStep(t, i, policies[policyName[i]], 0)
    ELSE CompleteOnly(t)

(* handleGroupWait with the OnPageDue callback of cmd/kerberon: the policy  *)
(* is looked up in the configuration of this moment; an incident whose      *)
(* policy has vanished is logged and left alone.                            *)
HandleGroupWait(t, i) ==
    IF status[i] = "triggered" /\ policies[policyName[i]] # None
    THEN FireStep(t, i, policies[policyName[i]], 0)
    ELSE CompleteOnly(t)

(* Mutant: the policy is looked up live instead of in the snapshot.         *)
HandleEscalateLive(t, i) ==
    IF status[i] = "triggered"
    THEN FireStep(t, i, policies[policyName[i]], timers[t].step)
    ELSE CompleteOnly(t)

(* handleEscalate: the step is the one the timer was scheduled for.         *)
HandleEscalate(t, i) ==
    IF status[i] = "triggered"
    THEN FireStep(t, i, snapshot[i], timers[t].step)
    ELSE CompleteOnly(t)

(* Mutant: the rung that was acknowledged fires again.                      *)
HandleAckTimeoutSameRung(t, i) ==
    IF status[i] = "acknowledged"
    THEN FireStep(t, i, snapshot[i], currentStep[i])
    ELSE CompleteOnly(t)

(* handleAckTimeout: an acknowledged incident nobody resolved in time.      *)
HandleAckTimeout(t, i) ==
    IF status[i] = "acknowledged"
    THEN FireStep(t, i, snapshot[i], currentStep[i] + 1)
    ELSE CompleteOnly(t)

(* Mutant: the status is not checked, so an expired incident is resolved.   *)
HandleResolveTimeoutOfClosed(t, i) ==
    IF AllAlertsResolved(latest[i])
    THEN /\ status' = [status EXCEPT ![i] = "resolved"]
         /\ Complete(t, Cancelled(i, TimerKind, {t}))
         /\ UNCHANGED <<snapshot, currentStep, pageVars>>
    ELSE CompleteOnly(t)

(* Mutant: the executing timer is cancelled with the others.                *)
HandleResolveTimeoutCancelsItself(t, i) ==
    IF AllAlertsResolved(latest[i]) /\ status[i] \in Open
    THEN /\ status' = [status EXCEPT ![i] = "resolved"]
         /\ Complete(t, Cancelled(i, TimerKind, {}))
         /\ UNCHANGED <<snapshot, currentStep, pageVars>>
    ELSE CompleteOnly(t)

(* handleResolveTimeout: close the incident and cancel everything pending   *)
(* for it but the executing timer, which the scheduler completes.           *)
HandleResolveTimeout(t, i) ==
    IF AllAlertsResolved(latest[i]) /\ status[i] \in Open
    THEN /\ ResolveIncident(i)
         /\ Complete(t, Cancelled(i, TimerKind, {t}))
         /\ UNCHANGED <<snapshot, currentStep, pageVars>>
    ELSE CompleteOnly(t)

(* Mutant: the escalation timer is not cancelled.                           *)
AcknowledgeKeepsEscalating(i) ==
    /\ AcknowledgeIncident(i)
    /\ UNCHANGED <<groupKey, policyName, snapshot, currentStep, latest,
                   timers, pageVars, policies, selected>>

(* Mutant: no ack timeout is started.                                       *)
AcknowledgeForever(i) ==
    /\ AcknowledgeIncident(i)
    /\ timers' = Cancelled(i, {"escalate"}, {})
    /\ UNCHANGED <<groupKey, policyName, snapshot, currentStep, latest,
                   pageVars, policies, selected>>

(* Acknowledge: stop the escalation, and start the ack timeout if the       *)
(* snapshot has one.  Without a snapshot (during group_wait) DecodePolicy   *)
(* fails and no timeout is started.                                         *)
Acknowledge(i) ==
    /\ AcknowledgeIncident(i)
    /\ IF snapshot[i] # None /\ snapshot[i].ackTimeout
       THEN \E t \in TimerId :
                /\ FreshTimer(t)
                /\ timers' = [Cancelled(i, {"escalate"}, {}) EXCEPT
                                ![t] = NewTimer(i, "repeat", 0)]
       ELSE timers' = Cancelled(i, {"escalate"}, {})
    /\ UNCHANGED <<groupKey, policyName, snapshot, currentStep, latest,
                   pageVars, policies, selected>>

(* store.Resolve: a human closes the incident.                              *)
Resolve(i) ==
    /\ ResolveIncident(i)
    /\ timers' = Cancelled(i, TimerKind, {})
    /\ UNCHANGED <<groupKey, policyName, snapshot, currentStep, latest,
                   pageVars, policies, selected>>

-----------------------------------------------------------------------------
(* The scheduler loop (internal/timer).                                     *)

(* step: a due timer is selected from a read outside any transaction.       *)
Select(t) ==
    /\ selected = None
    /\ Pending(t)
    /\ selected' = t
    /\ UNCHANGED <<incidentVars, latest, timers, pageVars, policies>>

Handle(t, i) ==
    \/ timers[t].kind = "group_wait"      /\ HandleGroupWait(t, i)
    \/ timers[t].kind = "escalate"        /\ HandleEscalate(t, i)
    \/ timers[t].kind = "repeat"          /\ HandleAckTimeout(t, i)
    \/ timers[t].kind = "resolve_timeout" /\ HandleResolveTimeout(t, i)

(* execute: LoadPendingTimer, the handler and CompleteTimer commit together.*)
Execute(t) ==
    /\ selected = t
    /\ Pending(t)
    /\ Handle(t, timers[t].incident)
    /\ selected' = None
    /\ UNCHANGED <<groupKey, policyName, latest, policies>>

(* execute: the timer was cancelled between selection and execution.        *)
SkipNotPending(t) ==
    /\ selected = t
    /\ ~Pending(t)
    /\ selected' = None
    /\ UNCHANGED <<incidentVars, latest, timers, pageVars, policies>>

(* The handler failed, or the process crashed before the commit: nothing    *)
(* the transaction wrote survives, and the timer is still pending.          *)
Rollback ==
    /\ selected # None
    /\ selected' = None
    /\ UNCHANGED <<incidentVars, latest, timers, pageVars, policies>>

(* A reload stores a new policy table.                                      *)
Reload ==
    /\ policies' \in PolicyTable
    /\ UNCHANGED <<incidentVars, latest, timers, pageVars, selected>>

-----------------------------------------------------------------------------
Next ==
    \/ \E g \in GroupKey, f \in Fingerprint : Ingest(g, f)
    \/ \E i \in Incident : Acknowledge(i) \/ Resolve(i)
    \/ \E t \in TimerId : Select(t) \/ Execute(t) \/ SkipNotPending(t)
    \/ Rollback
    \/ Reload

Spec == Init /\ [][Next]_vars

(* Fairness.  The loop takes the pending timer with the earliest fire_at    *)
(* first, so a timer can be passed over only while older ones remain; and   *)
(* a handler fails transiently, so a timer selected again and again         *)
(* succeeds.  An incident never has two timers of a chain kind, and no more *)
(* of them than its rungs and acknowledgements, so SelectOf and ExecuteOf   *)
(* speak of one timer at a time.                                            *)
(* A grace window is another matter: each resolved alert cancels it and     *)
(* starts another, due a whole grace later, so while such alerts keep coming*)
(* there may be a pending window at every moment and none that is ever due. *)
(* Only a window that resolved alerts have stopped replacing is promised its*)
(* turn.                                                                    *)
ChainKind == {"group_wait", "escalate", "repeat"}

SelectOf(i, kinds) == \E t \in PendingOf(i, kinds) : Select(t)
ExecuteOf(i, kinds) == \E t \in PendingOf(i, kinds) : Execute(t)
Runs(i, kinds) == SF_vars(SelectOf(i, kinds)) /\ SF_vars(ExecuteOf(i, kinds))

ResolvedAlert(i) == \E f \in Fingerprint : AttachResolved(i, f)

Fairness ==
    /\ WF_vars(\E t \in TimerId : SkipNotPending(t))
    /\ \A i \in Incident :
        /\ Runs(i, ChainKind)
        /\ <>[][~ResolvedAlert(i)]_vars => Runs(i, {"resolve_timeout"})

FairSpec == Spec /\ Fairness

-----------------------------------------------------------------------------
(* Safety.                                                                  *)

(* At most one open incident per group key, whatever alerts, resolutions    *)
(* and expiries interleave: the unique index on open group keys (0001_initial)
   never has to refuse the insert of openIncident, which would lose the alert. *)
OneOpenIncident ==
    \A i, j \in Incident :
        status[i] \in Open /\ status[j] \in Open /\ groupKey[i] = groupKey[j]
            => i = j

(* The timers that drive an escalation agree with the incident they drive,  *)
(* although acknowledgements, resolutions and handlers each cancel only     *)
(* some kinds: a pending escalate timer belongs to a triggered incident and *)
(* names the rung after the one last fired; a pending ack timeout belongs to*)
(* an acknowledged one; group_wait precedes the first rung.                 *)
Agrees(kind, step, i) ==
    /\ (kind = "escalate") =>
            status[i] = "triggered" /\ snapshot[i] # None
                                    /\ step = currentStep[i] + 1
    /\ (kind = "repeat") => status[i] = "acknowledged" /\ snapshot[i] # None
    /\ (kind = "group_wait") => status[i] \in Open /\ snapshot[i] = None
    /\ (kind = "resolve_timeout") => status[i] \in Open \cup {"expired"}

ChainTimersAgree ==
    \A t \in TimerId : Pending(t) =>
        Agrees(timers[t].kind, timers[t].step, timers[t].incident)

(* No incident is driven by two timers at once: two chains would page every *)
(* rung twice or expire the incident early.                                 *)
OneChainTimer ==
    \A i \in Incident : \A t, u \in PendingOf(i, ChainKind) : t = u

(* Both: an escalation is driven by one timer, and that one fits it, over   *)
(* any sequence of rungs, acknowledgements and ack timeouts.                *)
ChainIsSound == ChainTimersAgree /\ OneChainTimer

(* An escalation that has begun never loses its driver: a triggered incident*)
(* has its next rung (or its expiry) scheduled, and an acknowledged one     *)
(* whose policy asks for it has its ack timeout scheduled.                  *)
NeverStranded ==
    \A i \in Incident : snapshot[i] # None =>
        /\ (status[i] = "triggered") => PendingOf(i, {"escalate"}) # {}
        /\ (status[i] = "acknowledged" /\ snapshot[i].ackTimeout)
                => PendingOf(i, {"repeat"}) # {}

(* A grace window is open exactly while every alert of an open incident has *)
(* resolved; a re-fire between the window's selection and its execution     *)
(* leaves no window behind.                                                 *)
GraceMatchesAlerts ==
    \A i \in Incident :
        LET grace == PendingOf(i, {"resolve_timeout"}) IN
        /\ \A t, u \in grace : t = u
        /\ grace # {} => AllAlertsResolved(latest[i])
        /\ (status[i] \in Open /\ AllAlertsResolved(latest[i])) => grace # {}

(* The rungs of a policy fire in order, each exactly once, none skipped,    *)
(* across acknowledgements, ack timeouts, rollbacks and reloads.            *)
RungsInOrder ==
    \A i \in Incident :
        /\ Len(notified[i]) =
                IF snapshot[i] = None THEN 0 ELSE currentStep[i] + 1
        /\ \A k \in 1..Len(notified[i]) : notified[i][k] = k - 1

(* An incident expires only after every rung of every pass has fired.       *)
ExpiredMeansExhausted ==
    \A i \in Incident : status[i] = "expired" =>
        /\ snapshot[i] # None
        /\ Len(notified[i]) = Rungs(snapshot[i])

(* The ladder is climbed rung by rung, and to its end before giving up.     *)
LadderIsClimbed == RungsInOrder /\ ExpiredMeansExhausted

-----------------------------------------------------------------------------
(* What a step may never do.                                                *)

(* A page goes out for an incident only while it is triggered, or when its  *)
(* acknowledgement has timed out: in particular a timer selected before an  *)
(* acknowledgement or a resolution commits pages nobody after it.           *)
AckSilences ==
    [][\A i \in Incident : notified'[i] # notified[i] =>
        \/ status[i] = "triggered"
        \/ /\ status[i] = "acknowledged"
           /\ timers[selected].kind = "repeat"]_vars

(* Resolved and expired are final, and nothing is paged after them.         *)
ClosedIsFinal ==
    [][\A i \in Incident : status[i] \in {"resolved", "expired"} =>
        /\ status'[i] = status[i]
        /\ notified'[i] = notified[i]
        /\ currentStep'[i] = currentStep[i]]_vars

(* A reload never changes the policy an escalation that has begun follows.  *)
SnapshotIsFrozen ==
    [][\A i \in Incident : snapshot[i] # None => snapshot'[i] = snapshot[i]]_vars

(* A grace window closes an incident only if no alert has re-fired.         *)
NoCloseWhileFiring ==
    [][\A i \in Incident, t \in TimerId :
        (Execute(t) /\ status'[i] = "resolved" /\ status[i] # "resolved")
            => \A f \in Fingerprint : latest[i][f] # "firing"]_vars

-----------------------------------------------------------------------------
(* What the documents say and the code does not do.                         *)

(* DECISIONS D4: an incident escalates the way it started, even across a    *)
(* reload that deletes the policy; core: while triggered, escalation timers *)
(* are pending.  The snapshot is taken only when group_wait closes, so a    *)
(* policy deleted before that leaves the incident without any timer.        *)
DeletedPolicyStillEscalates ==
    \A i \in Incident :
        status[i] = "triggered" => PendingOf(i, ChainKind) # {}

(* Acknowledge: "Re-escalate if an acknowledged incident is not resolved in *)
(* time".  An acknowledgement during group_wait finds no snapshot to read   *)
(* the timeout from, and the incident never escalates again.                *)
AcknowledgementTimesOut ==
    \A i \in Incident :
        (status[i] = "acknowledged" /\ policies[policyName[i]].ackTimeout)
            => PendingOf(i, {"repeat"}) # {}

(* core: IncidentExpired means that escalation exhausted every step "without*)
(* an acknowledgement".  The ack timeout of an incident acknowledged on the *)
(* last rung expires it in the same transaction, paging nobody.             *)
ExpiredMeansUnacknowledged ==
    [][\A i \in Incident :
        status[i] = "acknowledged" => status'[i] # "expired"]_vars

-----------------------------------------------------------------------------
(* Liveness, under FairSpec.                                                *)

(* A triggered incident does not stay triggered: somebody acknowledges or   *)
(* resolves it, or every rung fires and it expires.  With an ack timeout, an*)
(* escalation that has begun always ends: an acknowledgement nobody follows *)
(* up only buys time.                                                       *)
EscalationEnds ==
    \A i \in Incident :
        /\ status[i] = "triggered" ~> status[i] # "triggered"
        /\ (snapshot[i] # None /\ snapshot[i].ackTimeout)
              ~> status[i] \in {"resolved", "expired"}

(* An incident whose alerts all stay resolved is closed, once resolved      *)
(* alerts have stopped coming for it: attachToIncident starts the window    *)
(* anew at each of them, so a sender that repeats "resolved" faster than the*)
(* grace keeps the incident open for ever.                                  *)
QuietIncidentCloses ==
    \A i \in Incident :
        <>[][~ResolvedAlert(i)]_vars =>
            ((status[i] \in Open /\ AllAlertsResolved(latest[i]))
                ~> (status[i] \notin Open \/ ~AllAlertsResolved(latest[i])))
=============================================================================
