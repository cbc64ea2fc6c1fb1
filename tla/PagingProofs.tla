---------------------------- MODULE PagingProofs ----------------------------
(***************************************************************************)
(* Proofs about Paging for any number of incidents, groups, timers, policies*)
(* and reloads.  Inv is the inductive invariant: the properties of Paging  *)
(* that concern the escalation chain, and the two facts they rest on.  Paging*)
(* implements OnCall; the action properties follow from the same cases.    *)
(***************************************************************************)
EXTENDS PagingRefinement, TLAPS

(* A row that was never inserted has no timers and no snapshot; one that was*)
(* inserted names a group and a policy.                                     *)
Rows ==
    \A i \in Incident :
        /\ status[i] = "none" => snapshot[i] = None
        /\ status[i] # "none" =>
                groupKey[i] \in GroupKey /\ policyName[i] \in PolicyName

(* The rung last fired is one of the policy's.                              *)
OnTheLadder ==
    \A i \in Incident :
        snapshot[i] # None => currentStep[i] < Rungs(snapshot[i])

Inv ==
    /\ TypeOK
    /\ Rows
    /\ OneOpenIncident
    /\ ChainTimersAgree
    /\ OneChainTimer
    /\ NeverStranded
    /\ OnTheLadder
    /\ RungsInOrder
    /\ ExpiredMeansExhausted

-----------------------------------------------------------------------------
(* Policies have at least one rung, so the first one is never exhausted.    *)
LEMMA RungsPositive ==
    ASSUME NEW p \in Policy
    PROVE  Rungs(p) \in Nat /\ Rungs(p) > 0
<1>1. p.steps \in Nat /\ p.steps > 0
  BY DEF Policy
<1>2. TotalPasses(p) \in Nat /\ TotalPasses(p) > 0
  BY DEF Policy, TotalPasses
<1> DEFINE s == p.steps
           n == TotalPasses(p)
<1>3. \A a, b \in Nat : a > 0 /\ b > 0 => a * b \in Nat /\ a * b > 0
  OBVIOUS
<1> QED
  BY <1>1, <1>2, <1>3 DEF Rungs

(* A step of a policy belongs to a pass.                                    *)
LEMMA PassIsNatural ==
    ASSUME NEW p \in Policy, NEW index \in Nat
    PROVE  StepAt(p, index).pass \in Nat
<1>1. p.steps \in Nat /\ p.steps > 0
  BY DEF Policy
<1>2. \A a, b \in Nat : b > 0 => a \div b \in Nat
  OBVIOUS
<1> QED
  BY <1>1, <1>2 DEF StepAt

(* The initial state satisfies the invariant.                               *)
LEMMA InitInv == Init => Inv
<1> SUFFICES ASSUME Init PROVE Inv
  OBVIOUS
<1>1. TypeOK
  BY DEF Init, TypeOK, Status
<1>2. \A t \in TimerId : ~Pending(t)
  BY DEF Init, Pending
<1>3. \A i \in Incident :
        status[i] = "none" /\ snapshot[i] = None /\ notified[i] = <<>>
  BY DEF Init
<1>4. Rows /\ OneOpenIncident /\ NeverStranded /\ OnTheLadder
        /\ ExpiredMeansExhausted
  BY <1>3 DEF Rows, OneOpenIncident, NeverStranded, OnTheLadder,
    ExpiredMeansExhausted, Open
<1>5. ChainTimersAgree
  BY <1>2 DEF ChainTimersAgree
<1>6. OneChainTimer
  BY <1>2 DEF OneChainTimer, PendingOf
<1>7. RungsInOrder
  BY <1>3 DEF RungsInOrder
<1> QED
  BY <1>1, <1>4, <1>5, <1>6, <1>7 DEF Inv

-----------------------------------------------------------------------------
(* NeverStranded in terms of rows instead of sets of ids.                   *)
HasTimer(i, kind) ==
    \E t \in TimerId : /\ timers[t] # None
                       /\ timers[t].incident = i
                       /\ timers[t].kind = kind

Driven(i) ==
    /\ (status[i] = "triggered") => HasTimer(i, "escalate")
    /\ (status[i] = "acknowledged" /\ snapshot[i].ackTimeout)
            => HasTimer(i, "repeat")

LEMMA StrandedRows ==
    /\ NeverStranded
        <=> \A i \in Incident : snapshot[i] # None => Driven(i)
    /\ NeverStranded'
        <=> \A i \in Incident : snapshot'[i] # None => Driven(i)'
<1>1. \A i, kind : PendingOf(i, {kind}) # {} <=> HasTimer(i, kind)
  BY DEF PendingOf, Pending, HasTimer
<1>2. \A i, kind : PendingOf(i, {kind})' # {} <=> HasTimer(i, kind)'
  BY DEF PendingOf, Pending, HasTimer
<1> QED
  BY <1>1, <1>2 DEF NeverStranded, Driven

(* Opening an incident: the new row has no timers yet, since every pending  *)
(* timer belongs to a row that exists.                                      *)
LEMMA OpenIncidentInv ==
    ASSUME Inv, NEW i \in Incident, NEW g \in GroupKey, NEW f \in Fingerprint,
           NEW name \in PolicyName, OpenIncident(i, g, f, name)
    PROVE  Inv'
<1> USE NoneAssumption
<1>1. PICK n \in TimerId :
        /\ timers[n] = None
        /\ timers' = [timers EXCEPT ![n] = NewTimer(i, "group_wait", 0)]
  BY DEF OpenIncident, FreshTimer, Pending
<1>2. /\ status[i] = "none"
      /\ status' = [status EXCEPT ![i] = "triggered"]
      /\ groupKey' = [groupKey EXCEPT ![i] = g]
      /\ policyName' = [policyName EXCEPT ![i] = name]
      /\ latest' = [latest EXCEPT ![i][f] = "firing"]
      /\ UNCHANGED <<snapshot, currentStep, pageVars, policies, selected>>
  BY DEF OpenIncident, InsertIncident, InsertAlert
<1>3. TypeOK
  BY DEF Inv
<1>4. NewTimer(i, "group_wait", 0) \in Timer
  BY DEF NewTimer, Timer, TimerKind
<1>5. TypeOK'
  <2>1. latest' \in [Incident -> [Fingerprint -> AlertStatus \cup {"none"}]]
    BY <1>2, <1>3 DEF TypeOK, AlertStatus
  <2>2. timers' \in [TimerId -> Timer \cup {None}]
    BY <1>1, <1>3, <1>4 DEF TypeOK
  <2>3. status' \in [Incident -> Status]
    BY <1>2, <1>3 DEF TypeOK, Status
  <2> QED
    BY <1>2, <1>3, <2>1, <2>2, <2>3 DEF TypeOK, pageVars
<1>6. \A t \in TimerId : timers[t] # None => timers[t].incident # i
  BY <1>2, <1>3 DEF Inv, ChainTimersAgree, Agrees, Pending, Open, TypeOK, Timer, TimerKind
<1>7. snapshot[i] = None
  BY <1>2 DEF Inv, Rows
<1>8. Rows'
  BY <1>2, <1>3, <1>7 DEF Inv, Rows, TypeOK
<1>9. OneOpenIncident'
  <2>1. \A j \in Incident : status[j] \in Open => groupKey[j] # g
    BY DEF OpenIncident, OpenIncidents
  <2> QED
    BY <1>2, <1>3, <2>1 DEF Inv, OneOpenIncident, TypeOK, Open
<1>10. ChainTimersAgree'
  <2> SUFFICES ASSUME NEW t \in TimerId, timers'[t] # None
               PROVE  Agrees(timers[t].kind, timers[t].step, timers[t].incident)'
    BY DEF ChainTimersAgree, Pending
  <2>1. CASE t = n
    BY <1>1, <1>2, <1>3, <1>7, <2>1 DEF Agrees, NewTimer, TypeOK, Open
  <2>2. CASE t # n
    <3>1. timers'[t] = timers[t] /\ timers[t] \in Timer /\ timers[t].incident # i
      BY <1>1, <1>3, <1>6, <2>2 DEF TypeOK
    <3>2. Agrees(timers[t].kind, timers[t].step, timers[t].incident)
      BY <3>1 DEF Inv, ChainTimersAgree, Pending
    <3> QED
      BY <1>2, <1>3, <3>1, <3>2 DEF Agrees, TypeOK, Timer
  <2> QED
    BY <2>1, <2>2
<1>11. OneChainTimer'
  <2> SUFFICES ASSUME NEW j \in Incident, NEW t \in TimerId, NEW u \in TimerId,
                      timers'[t] # None, timers'[u] # None,
                      timers'[t].incident = j, timers'[u].incident = j,
                      timers'[t].kind \in ChainKind,
                      timers'[u].kind \in ChainKind
               PROVE  t = u
    BY DEF OneChainTimer, PendingOf, Pending
  <2>1. CASE j = i
    BY <1>1, <1>3, <1>6, <2>1 DEF TypeOK
  <2>2. CASE j # i
    <3>1. timers'[t] = timers[t] /\ timers'[u] = timers[u]
      BY <1>1, <1>3, <2>2 DEF TypeOK, NewTimer
    <3> QED
      BY <3>1 DEF Inv, OneChainTimer, PendingOf, Pending
  <2> QED
    BY <2>1, <2>2
<1>12. NeverStranded'
  <2> SUFFICES ASSUME NEW j \in Incident, snapshot'[j] # None
               PROVE  Driven(j)'
    BY StrandedRows
  <2>1. j # i /\ snapshot[j] # None /\ Driven(j)
    BY <1>2, <1>7, StrandedRows DEF Inv
  <2>2. \A t \in TimerId : timers[t] # None => timers'[t] = timers[t]
    BY <1>1, <1>3 DEF TypeOK
  <2>3. \A kind : HasTimer(j, kind) => HasTimer(j, kind)'
    BY <2>2 DEF HasTimer
  <2> QED
    BY <1>2, <1>3, <2>1, <2>3 DEF Driven, TypeOK
<1>13. OnTheLadder' /\ RungsInOrder' /\ ExpiredMeansExhausted'
  BY <1>2, <1>3 DEF Inv, OnTheLadder, RungsInOrder, ExpiredMeansExhausted,
    TypeOK, pageVars
<1> QED
  BY <1>5, <1>8, <1>9, <1>10, <1>11, <1>12, <1>13 DEF Inv

(* Steps that only open and close grace windows leave the chain alone.      *)
GraceRow(row) ==
    row # None => /\ row.kind = "resolve_timeout"
                  /\ status[row.incident] \in Open

LEMMA GraceStepInv ==
    ASSUME Inv,
           UNCHANGED <<incidentVars, pageVars, policies, selected>>,
           latest' \in [Incident -> [Fingerprint -> AlertStatus \cup {"none"}]],
           timers' \in [TimerId -> Timer \cup {None}],
           \A t \in TimerId :
                \/ timers'[t] = timers[t]
                \/ (timers[t] = None \/ timers[t].kind = "resolve_timeout")
                    /\ GraceRow(timers'[t])
    PROVE  Inv'
<1> USE NoneAssumption
<1>1. TypeOK'
  BY DEF Inv, TypeOK, incidentVars, pageVars
<1>2. \A t \in TimerId :
        timers'[t] # None /\ timers'[t].kind \in ChainKind
            => timers'[t] = timers[t]
  BY DEF GraceRow, ChainKind
<1>3. \A t \in TimerId :
        timers[t] # None /\ timers[t].kind \in ChainKind
            => timers'[t] = timers[t]
  BY DEF GraceRow, ChainKind
<1>4. ChainTimersAgree'
  <2> SUFFICES ASSUME NEW t \in TimerId, timers'[t] # None
               PROVE  Agrees(timers[t].kind, timers[t].step, timers[t].incident)'
    BY DEF ChainTimersAgree, Pending
  <2>1. CASE timers'[t] = timers[t]
    BY <2>1 DEF Inv, ChainTimersAgree, Pending, Agrees, incidentVars
  <2>2. CASE GraceRow(timers'[t])
    BY <2>2 DEF GraceRow, Agrees, incidentVars
  <2> QED
    BY <2>1, <2>2
<1>5. OneChainTimer'
  BY <1>2 DEF Inv, OneChainTimer, PendingOf, Pending
<1>6. NeverStranded'
  <2>1. \A j : /\ HasTimer(j, "escalate") => HasTimer(j, "escalate")'
               /\ HasTimer(j, "repeat") => HasTimer(j, "repeat")'
    BY <1>3 DEF HasTimer, ChainKind
  <2> QED
    BY <2>1, StrandedRows DEF Inv, Driven, incidentVars
<1> QED
  BY <1>1, <1>4, <1>5, <1>6
  DEF Inv, Rows, OneOpenIncident, OnTheLadder, RungsInOrder,
      ExpiredMeansExhausted, incidentVars, pageVars

(* An alert that joins an open incident.                                    *)
LEMMA AttachFiringInv ==
    ASSUME Inv, NEW i \in Incident, NEW f \in Fingerprint, AttachFiring(i, f)
    PROVE  Inv'
<1> USE NoneAssumption
<1>1. TypeOK
  BY DEF Inv
<1>2. latest' \in [Incident -> [Fingerprint -> AlertStatus \cup {"none"}]]
  BY <1>1 DEF AttachFiring, InsertAlert, TypeOK, AlertStatus
<1>3. timers' = Cancelled(i, {"resolve_timeout"}, {})
  BY DEF AttachFiring
<1>4. /\ timers' \in [TimerId -> Timer \cup {None}]
      /\ \A t \in TimerId : \/ timers'[t] = timers[t]
                            \/ /\ timers[t].kind = "resolve_timeout"
                               /\ timers'[t] = None
  BY <1>1, <1>3 DEF Cancelled, PendingOf, TypeOK
<1> QED
  BY <1>2, <1>4, GraceStepInv DEF AttachFiring, GraceRow

LEMMA AttachResolvedInv ==
    ASSUME Inv, NEW i \in Incident, NEW f \in Fingerprint, AttachResolved(i, f)
    PROVE  Inv'
<1> USE NoneAssumption
<1>1. TypeOK
  BY DEF Inv
<1>2. latest' \in [Incident -> [Fingerprint -> AlertStatus \cup {"none"}]]
  BY <1>1 DEF AttachResolved, InsertAlert, TypeOK, AlertStatus
<1>3. NewTimer(i, "resolve_timeout", 0) \in Timer
  BY DEF NewTimer, Timer, TimerKind
<1>4. GraceRow(NewTimer(i, "resolve_timeout", 0)) /\ GraceRow(None)
  BY DEF GraceRow, NewTimer, AttachResolved
<1>5. CASE UNCHANGED timers
  BY <1>1, <1>2, <1>5, GraceStepInv DEF AttachResolved, TypeOK
<1>6. CASE ~UNCHANGED timers
  <2>1. PICK n \in TimerId :
            /\ timers[n] = None
            /\ timers' = [Cancelled(i, {"resolve_timeout"}, {}) EXCEPT
                            ![n] = NewTimer(i, "resolve_timeout", 0)]
    BY <1>6 DEF AttachResolved, FreshTimer, Pending
  <2>2. /\ timers' \in [TimerId -> Timer \cup {None}]
        /\ \A t \in TimerId :
              \/ timers'[t] = timers[t]
              \/ timers[t].kind = "resolve_timeout" /\ timers'[t] = None
              \/ timers[t] = None
                    /\ timers'[t] = NewTimer(i, "resolve_timeout", 0)
    BY <1>1, <1>3, <2>1 DEF Cancelled, PendingOf, TypeOK
  <2> QED
    BY <1>2, <1>4, <2>2, GraceStepInv DEF AttachResolved
<1> QED
  BY <1>5, <1>6

-----------------------------------------------------------------------------
(* Steps that change one incident and its timers: it is enough to look at   *)
(* that incident.                                                           *)
RungsOf(i) ==
    /\ snapshot[i] # None => currentStep[i] < Rungs(snapshot[i])
    /\ Len(notified[i]) = IF snapshot[i] = None THEN 0 ELSE currentStep[i] + 1
    /\ \A k \in 1..Len(notified[i]) : notified[i][k] = k - 1
    /\ status[i] = "expired" =>
            snapshot[i] # None /\ Len(notified[i]) = Rungs(snapshot[i])

LEMMA OneIncidentStep ==
    ASSUME Inv, TypeOK', NEW i \in Incident,
           UNCHANGED <<groupKey, policyName>>,
           \A j \in Incident \ {i} :
                /\ status'[j] = status[j]
                /\ snapshot'[j] = snapshot[j]
                /\ currentStep'[j] = currentStep[j]
                /\ notified'[j] = notified[j],
           status[i] # "none", status'[i] # "none",
           status'[i] \in Open => status[i] \in Open,
           \A t \in TimerId :
                \/ timers'[t] = timers[t]
                \/ /\ timers[t] # None => timers[t].incident = i
                   /\ timers'[t] # None => timers'[t].incident = i,
           \A t \in TimerId :
                timers'[t] # None /\ timers'[t].incident = i =>
                    Agrees(timers[t].kind, timers[t].step, i)',
           \A t, u \in TimerId :
                /\ timers'[t] # None /\ timers'[t].incident = i
                /\ timers'[u] # None /\ timers'[u].incident = i
                /\ timers'[t].kind \in ChainKind
                /\ timers'[u].kind \in ChainKind
                => t = u,
           snapshot'[i] # None => Driven(i)',
           RungsOf(i)'
    PROVE  Inv'
<1> USE NoneAssumption
<1>1. Rows'
  BY DEF Inv, Rows
<1>2. OneOpenIncident'
  BY DEF Inv, OneOpenIncident
<1>3. \A t \in TimerId : timers[t] # None => timers[t] \in Timer
  BY DEF Inv, TypeOK
<1>4. \A t \in TimerId : timers'[t] # None => timers'[t] \in Timer
  BY DEF TypeOK
<1>5. ChainTimersAgree'
  <2> SUFFICES ASSUME NEW t \in TimerId, timers'[t] # None
               PROVE  Agrees(timers[t].kind, timers[t].step, timers[t].incident)'
    BY DEF ChainTimersAgree, Pending
  <2>1. CASE timers'[t].incident = i
    BY <2>1
  <2>2. CASE timers'[t].incident # i
    <3>1. timers'[t] = timers[t]
      BY <2>2
    <3>2. Agrees(timers[t].kind, timers[t].step, timers[t].incident)
      BY <3>1 DEF Inv, ChainTimersAgree, Pending
    <3>3. timers[t].incident \in Incident \ {i}
      BY <1>3, <2>2, <3>1 DEF Timer
    <3> QED
      BY <3>1, <3>2, <3>3 DEF Agrees
  <2> QED
    BY <2>1, <2>2
<1>6. OneChainTimer'
  <2> SUFFICES ASSUME NEW j \in Incident, NEW t \in TimerId, NEW u \in TimerId,
                      timers'[t] # None, timers'[u] # None,
                      timers'[t].incident = j, timers'[u].incident = j,
                      timers'[t].kind \in ChainKind,
                      timers'[u].kind \in ChainKind
               PROVE  t = u
    BY DEF OneChainTimer, PendingOf, Pending
  <2>1. CASE j = i
    BY <2>1
  <2>2. CASE j # i
    <3>1. timers'[t] = timers[t] /\ timers'[u] = timers[u]
      BY <2>2
    <3> QED
      BY <3>1 DEF Inv, OneChainTimer, PendingOf, Pending
  <2> QED
    BY <2>1, <2>2
<1>7. NeverStranded'
  <2> SUFFICES ASSUME NEW j \in Incident, snapshot'[j] # None, j # i
               PROVE  Driven(j)'
    BY StrandedRows
  <2>1. \A kind : HasTimer(j, kind) => HasTimer(j, kind)'
    BY DEF HasTimer
  <2>2. Driven(j)
    BY StrandedRows DEF Inv
  <2> QED
    BY <2>1, <2>2 DEF Driven
<1>8. OnTheLadder' /\ RungsInOrder' /\ ExpiredMeansExhausted'
  BY DEF Inv, OnTheLadder, RungsInOrder, ExpiredMeansExhausted, RungsOf
<1> QED
  BY <1>1, <1>2, <1>5, <1>6, <1>7, <1>8 DEF Inv

(* What the invariant says of one incident and its timers.                  *)
LEMMA InvOfOne ==
    ASSUME Inv, NEW i \in Incident
    PROVE  /\ RungsOf(i)
           /\ snapshot[i] # None => Driven(i)
           /\ \A t \in TimerId :
                timers[t] # None =>
                    /\ timers[t] \in Timer
                    /\ status[timers[t].incident] # "none"
                    /\ Agrees(timers[t].kind, timers[t].step,
                              timers[t].incident)
           /\ \A t, u \in TimerId :
                /\ timers[t] # None /\ timers[t].incident = i
                /\ timers[u] # None /\ timers[u].incident = i
                /\ timers[t].kind \in ChainKind
                /\ timers[u].kind \in ChainKind
                => t = u
<1> USE NoneAssumption
<1>1. RungsOf(i)
  BY DEF Inv, OnTheLadder, RungsInOrder, ExpiredMeansExhausted, RungsOf
<1>2. snapshot[i] # None => Driven(i)
  BY StrandedRows DEF Inv
<1>3. \A t \in TimerId :
        timers[t] # None =>
            /\ timers[t] \in Timer
            /\ Agrees(timers[t].kind, timers[t].step, timers[t].incident)
  BY DEF Inv, TypeOK, ChainTimersAgree, Pending
<1>4. \A t \in TimerId :
        timers[t] # None => status[timers[t].incident] # "none"
  BY <1>3 DEF Agrees, Open, Timer, TimerKind
<1>5. \A t, u \in TimerId :
        /\ timers[t] # None /\ timers[t].incident = i
        /\ timers[u] # None /\ timers[u].incident = i
        /\ timers[t].kind \in ChainKind
        /\ timers[u].kind \in ChainKind
        => t = u
  BY DEF Inv, OneChainTimer, PendingOf, Pending
<1> QED
  BY <1>1, <1>2, <1>3, <1>4, <1>5

-----------------------------------------------------------------------------
(* An acknowledgement cancels the one chain timer there is, and may start   *)
(* the ack timeout in its place.                                            *)
LEMMA AcknowledgeInv ==
    ASSUME Inv, NEW i \in Incident, Acknowledge(i)
    PROVE  Inv'
<1> USE NoneAssumption
<1>1. TypeOK
  BY DEF Inv
<1>2. /\ status[i] = "triggered"
      /\ status' = [status EXCEPT ![i] = "acknowledged"]
      /\ UNCHANGED <<groupKey, policyName, snapshot, currentStep, latest,
                     pageVars, policies, selected>>
  BY DEF Acknowledge, AcknowledgeIncident
<1>3. NewTimer(i, "repeat", 0) \in Timer
  BY DEF NewTimer, Timer, TimerKind
<1> DEFINE C == Cancelled(i, {"escalate"}, {})
<1>4. \A t \in TimerId :
        C[t] = IF timers[t] # None /\ timers[t].incident = i
                                  /\ timers[t].kind = "escalate"
               THEN None ELSE timers[t]
  BY DEF Cancelled, PendingOf, Pending
<1>5. C \in [TimerId -> Timer \cup {None}]
  BY <1>1 DEF Cancelled, TypeOK
<1>6. RungsOf(i)'
  BY <1>1, <1>2, InvOfOne DEF RungsOf, pageVars, TypeOK
<1>7. CASE snapshot[i] # None /\ snapshot[i].ackTimeout
  <2>1. PICK n \in TimerId :
            /\ timers[n] = None
            /\ timers' = [C EXCEPT ![n] = NewTimer(i, "repeat", 0)]
    BY <1>7 DEF Acknowledge, FreshTimer, Pending
  <2> HIDE DEF C
  <2>2. TypeOK'
    <3>1. timers' \in [TimerId -> Timer \cup {None}]
      BY <1>3, <1>5, <2>1
    <3>2. status' \in [Incident -> Status]
      BY <1>1, <1>2 DEF TypeOK, Status
    <3> QED
      BY <1>1, <1>2, <3>1, <3>2 DEF TypeOK, pageVars
  <2>3. \A t \in TimerId :
            timers'[t] # None /\ timers'[t].incident = i =>
                \/ t = n /\ timers'[t] = NewTimer(i, "repeat", 0)
                \/ t # n /\ timers'[t] = timers[t]
                         /\ timers[t].kind # "escalate"
    BY <1>4, <1>5, <2>1
  <2>4. \A t \in TimerId :
            timers[t] # None /\ timers[t].incident = i
                => timers[t].kind \in {"escalate", "resolve_timeout"}
    BY <1>2, <1>7, InvOfOne DEF Agrees, Timer, TimerKind
  <2>5. \A t \in TimerId :
            timers'[t] # None /\ timers'[t].incident = i =>
                Agrees(timers[t].kind, timers[t].step, i)'
    <3> SUFFICES ASSUME NEW t \in TimerId, timers'[t] # None,
                        timers'[t].incident = i
                 PROVE  Agrees(timers[t].kind, timers[t].step, i)'
      OBVIOUS
    <3>1. status'[i] = "acknowledged" /\ snapshot'[i] # None
      BY <1>1, <1>2, <1>7 DEF TypeOK
    <3>2. timers'[t].kind \in {"repeat", "resolve_timeout"}
      BY <2>3, <2>4 DEF NewTimer
    <3> QED
      BY <3>1, <3>2 DEF Agrees, Open
  <2>6. \A t, u \in TimerId :
            /\ timers'[t] # None /\ timers'[t].incident = i
            /\ timers'[u] # None /\ timers'[u].incident = i
            /\ timers'[t].kind \in ChainKind
            /\ timers'[u].kind \in ChainKind
            => t = u
    <3>1. \A t \in TimerId :
            timers'[t] # None /\ timers'[t].incident = i
                /\ timers'[t].kind \in ChainKind => t = n
      BY <2>3, <2>4 DEF ChainKind
    <3> QED
      BY <3>1
  <2>7. Driven(i)'
    <3>1. timers'[n] = NewTimer(i, "repeat", 0)
      BY <1>5, <2>1
    <3>2. /\ timers'[n] # None
          /\ timers'[n].incident = i
          /\ timers'[n].kind = "repeat"
      BY <1>3, <3>1 DEF NewTimer
    <3>3. HasTimer(i, "repeat")'
      BY <3>2 DEF HasTimer
    <3> QED
      BY <1>1, <1>2, <3>3 DEF Driven, TypeOK
  <2>8. \A t \in TimerId :
            \/ timers'[t] = timers[t]
            \/ /\ timers[t] # None => timers[t].incident = i
               /\ timers'[t] # None => timers'[t].incident = i
    BY <1>4, <1>5, <2>1 DEF NewTimer
  <2> QED
    BY <1>1, <1>2, <1>6, <2>2, <2>5, <2>6, <2>7, <2>8, OneIncidentStep
    DEF Open, TypeOK, pageVars
<1>8. CASE ~(snapshot[i] # None /\ snapshot[i].ackTimeout)
  <2>1. timers' = C
    BY <1>8 DEF Acknowledge
  <2> HIDE DEF C
  <2>2. TypeOK'
    <3>1. status' \in [Incident -> Status]
      BY <1>1, <1>2 DEF TypeOK, Status
    <3> QED
      BY <1>1, <1>2, <1>5, <2>1, <3>1 DEF TypeOK, pageVars
  <2>3. \A t \in TimerId :
            timers'[t] # None /\ timers'[t].incident = i =>
                timers'[t] = timers[t] /\ timers[t].kind # "escalate"
    BY <1>4, <2>1
  <2>4. \A t \in TimerId :
            timers'[t] # None /\ timers'[t].incident = i =>
                Agrees(timers[t].kind, timers[t].step, i)'
    <3> SUFFICES ASSUME NEW t \in TimerId, timers'[t] # None,
                        timers'[t].incident = i
                 PROVE  Agrees(timers[t].kind, timers[t].step, i)'
      OBVIOUS
    <3>1. Agrees(timers[t].kind, timers[t].step, i)
      BY <2>3, InvOfOne
    <3> QED
      BY <1>1, <1>2, <2>3, <3>1 DEF Agrees, Open, TypeOK
  <2>5. \A t, u \in TimerId :
            /\ timers'[t] # None /\ timers'[t].incident = i
            /\ timers'[u] # None /\ timers'[u].incident = i
            /\ timers'[t].kind \in ChainKind
            /\ timers'[u].kind \in ChainKind
            => t = u
    BY <2>3, InvOfOne
  <2>6. snapshot'[i] # None => Driven(i)'
    BY <1>1, <1>2, <1>8 DEF Driven, TypeOK
  <2>7. \A t \in TimerId :
            \/ timers'[t] = timers[t]
            \/ /\ timers[t] # None => timers[t].incident = i
               /\ timers'[t] # None => timers'[t].incident = i
    BY <1>4, <2>1
  <2> QED
    BY <1>1, <1>2, <1>6, <2>2, <2>4, <2>5, <2>6, <2>7, OneIncidentStep
    DEF Open, TypeOK, pageVars
<1> QED
  BY <1>7, <1>8

(* A manual resolution cancels every timer of the incident.                 *)
LEMMA ResolveInv ==
    ASSUME Inv, NEW i \in Incident, Resolve(i)
    PROVE  Inv'
<1> USE NoneAssumption
<1>1. TypeOK
  BY DEF Inv
<1>2. /\ status[i] \in Open
      /\ status' = [status EXCEPT ![i] = "resolved"]
      /\ timers' = Cancelled(i, TimerKind, {})
      /\ UNCHANGED <<groupKey, policyName, snapshot, currentStep, latest,
                     pageVars, policies, selected>>
  BY DEF Resolve, ResolveIncident
<1>3. \A t \in TimerId :
        \/ timers'[t] = timers[t]
            /\ (timers[t] # None => timers[t].incident # i)
        \/ timers'[t] = None /\ timers[t] # None /\ timers[t].incident = i
  BY <1>1, <1>2 DEF Cancelled, PendingOf, Pending, TypeOK, Timer
<1>4. TypeOK'
  <2>1. timers' \in [TimerId -> Timer \cup {None}]
    BY <1>1, <1>2 DEF TypeOK, Cancelled
  <2>2. status' \in [Incident -> Status]
    BY <1>1, <1>2 DEF TypeOK, Status
  <2> QED
    BY <1>1, <1>2, <2>1, <2>2 DEF TypeOK, pageVars
<1>5. RungsOf(i)'
  BY <1>1, <1>2, InvOfOne DEF RungsOf, pageVars, TypeOK
<1>6. Driven(i)'
  BY <1>1, <1>2 DEF Driven, TypeOK
<1>7. \A t \in TimerId : timers'[t] # None => timers'[t].incident # i
  BY <1>3
<1> QED
  BY <1>1, <1>2, <1>3, <1>4, <1>5, <1>6, <1>7, OneIncidentStep
  DEF Open, TypeOK, pageVars

-----------------------------------------------------------------------------
(* The index a handler fires: the first rung, or the one after the last.    *)
NextIndex(i) == IF snapshot[i] = None THEN 0 ELSE currentStep[i] + 1

(* Firing a rung replaces the incident's only chain timer by the next one.  *)
LEMMA PageStepInv ==
    ASSUME Inv, NEW t \in TimerId, NEW i \in Incident, NEW policy \in Policy,
           timers[t] # None, timers[t].incident = i,
           timers[t].kind \in ChainKind,
           status[i] \in Open,
           snapshot[i] \in {None, policy},
           ~Exhausted(policy, NextIndex(i)),
           PageStep(t, i, policy, NextIndex(i)),
           selected' = None,
           UNCHANGED <<groupKey, policyName, latest, policies>>
    PROVE  Inv'
<1> USE NoneAssumption
<1> DEFINE index == NextIndex(i)
<1>1. TypeOK
  BY DEF Inv
<1>2. index \in Nat /\ index < Rungs(policy) /\ Rungs(policy) \in Nat
  BY <1>1, RungsPositive DEF NextIndex, Exhausted, TypeOK
<1>3. PICK n \in TimerId :
        /\ timers[n] = None
        /\ timers' = [[timers EXCEPT ![n] = NewTimer(i, "escalate", index + 1)]
                        EXCEPT ![t] = None]
  BY DEF PageStep, Complete, FreshTimer, Pending
<1>4. /\ status' = [status EXCEPT ![i] = "triggered"]
      /\ snapshot' = [snapshot EXCEPT ![i] = policy]
      /\ currentStep' = [currentStep EXCEPT ![i] = index]
      /\ notified' = [notified EXCEPT ![i] = Append(@, index)]
  BY DEF PageStep
<1>5. NewTimer(i, "escalate", index + 1) \in Timer
  BY <1>2 DEF NewTimer, Timer, TimerKind
<1> HIDE DEF index
<1>6. TypeOK'
  <2>1. timers' \in [TimerId -> Timer \cup {None}]
    BY <1>1, <1>3, <1>5 DEF TypeOK
  <2>2. notifications' \subseteq Notification
    <3>1. StepAt(policy, index).pass \in Nat
      BY <1>2, PassIsNatural
    <3> QED
      BY <1>1, <1>2, <3>1 DEF PageStep, TypeOK, Notification, index
  <2>3. notified' \in [Incident -> Seq(Nat)]
    <3>1. notified[i] \in Seq(Nat)
      BY <1>1 DEF TypeOK
    <3>2. Append(notified[i], index) \in Seq(Nat)
      BY <1>2, <3>1
    <3> QED
      BY <1>1, <1>4, <3>2 DEF TypeOK
  <2>4. /\ status' \in [Incident -> Status]
        /\ snapshot' \in [Incident -> Policy \cup {None}]
        /\ currentStep' \in [Incident -> Nat]
    BY <1>1, <1>2, <1>4 DEF TypeOK, Status
  <2> QED
    BY <1>1, <2>1, <2>2, <2>3, <2>4 DEF TypeOK
<1>7. /\ status'[i] = "triggered" /\ snapshot'[i] = policy
      /\ currentStep'[i] = index /\ policy # None
      /\ notified'[i] = Append(notified[i], index)
  BY <1>1, <1>4 DEF TypeOK
<1>8. RungsOf(i)'
  <2>1. /\ notified[i] \in Seq(Nat) /\ Len(notified[i]) = index
        /\ \A k \in 1..Len(notified[i]) : notified[i][k] = k - 1
    BY <1>1, InvOfOne DEF RungsOf, TypeOK, NextIndex, index
  <2>2. /\ Len(notified'[i]) = index + 1
        /\ \A k \in 1..Len(notified'[i]) : notified'[i][k] = k - 1
    BY <1>2, <1>7, <2>1
  <2> QED
    BY <1>2, <1>7, <2>2 DEF RungsOf
<1>9. n # t
  BY <1>3
<1>10. timers'[n] = NewTimer(i, "escalate", index + 1) /\ timers'[t] = None
  BY <1>1, <1>3, <1>9 DEF TypeOK
<1>11. \A u \in TimerId \ {n, t} : timers'[u] = timers[u]
  BY <1>1, <1>3 DEF TypeOK
<1>12. \A u \in TimerId :
        timers'[u] # None /\ timers'[u].incident = i
            => u = n \/ timers'[u].kind = "resolve_timeout"
  <2> SUFFICES ASSUME NEW u \in TimerId, u # n, timers'[u] # None,
                      timers'[u].incident = i
               PROVE  timers'[u].kind = "resolve_timeout"
    OBVIOUS
  <2>1. u # t /\ timers'[u] = timers[u]
    BY <1>10, <1>11
  <2>2. timers[u].kind \notin ChainKind
    BY <2>1, InvOfOne
  <2> QED
    BY <2>1, <2>2, InvOfOne DEF ChainKind, Timer, TimerKind
<1>13. \A u \in TimerId :
        timers'[u] # None /\ timers'[u].incident = i =>
            Agrees(timers[u].kind, timers[u].step, i)'
  BY <1>7, <1>10, <1>12 DEF Agrees, NewTimer, Open
<1>14. \A u, v \in TimerId :
        /\ timers'[u] # None /\ timers'[u].incident = i
        /\ timers'[v] # None /\ timers'[v].incident = i
        /\ timers'[u].kind \in ChainKind
        /\ timers'[v].kind \in ChainKind
        => u = v
  BY <1>12 DEF ChainKind
<1>15. Driven(i)'
  <2>1. /\ timers'[n] # None
        /\ timers'[n].incident = i
        /\ timers'[n].kind = "escalate"
    BY <1>5, <1>10 DEF NewTimer
  <2>2. HasTimer(i, "escalate")'
    BY <2>1 DEF HasTimer
  <2> QED
    BY <1>7, <2>2 DEF Driven
<1>16. \A u \in TimerId :
        \/ timers'[u] = timers[u]
        \/ /\ timers[u] # None => timers[u].incident = i
           /\ timers'[u] # None => timers'[u].incident = i
  <2> SUFFICES ASSUME NEW u \in TimerId, u \in {n, t}
               PROVE  /\ timers[u] # None => timers[u].incident = i
                      /\ timers'[u] # None => timers'[u].incident = i
    BY <1>11
  <2> QED
    BY <1>3, <1>10 DEF NewTimer
<1>17. \A j \in Incident \ {i} :
        /\ status'[j] = status[j]
        /\ snapshot'[j] = snapshot[j]
        /\ currentStep'[j] = currentStep[j]
        /\ notified'[j] = notified[j]
  <2> SUFFICES ASSUME NEW j \in Incident, j # i
               PROVE  /\ status'[j] = status[j]
                      /\ snapshot'[j] = snapshot[j]
                      /\ currentStep'[j] = currentStep[j]
                      /\ notified'[j] = notified[j]
    OBVIOUS
  <2> QED
    BY <1>1, <1>4 DEF TypeOK
<1> QED
  BY <1>6, <1>7, <1>8, <1>13, <1>14, <1>15, <1>16, <1>17, OneIncidentStep
  DEF Open

(* Running out of rungs: the chain ends with the incident.                  *)
LEMMA ExpireInv ==
    ASSUME Inv, NEW t \in TimerId, NEW i \in Incident,
           timers[t] # None, timers[t].incident = i,
           timers[t].kind \in ChainKind,
           status[i] \in Open, snapshot[i] # None,
           Exhausted(snapshot[i], currentStep[i] + 1),
           Expire(t, i),
           selected' = None,
           UNCHANGED <<groupKey, policyName, latest, policies>>
    PROVE  Inv'
<1> USE NoneAssumption
<1>1. TypeOK
  BY DEF Inv
<1>2. /\ status' = [status EXCEPT ![i] = "expired"]
      /\ timers' = [timers EXCEPT ![t] = None]
      /\ UNCHANGED <<snapshot, currentStep, notifications, notified>>
  BY DEF Expire, Complete, pageVars
<1>3. TypeOK'
  <2>1. timers' \in [TimerId -> Timer \cup {None}]
    BY <1>1, <1>2 DEF TypeOK
  <2>2. status' \in [Incident -> Status]
    BY <1>1, <1>2 DEF TypeOK, Status
  <2> QED
    BY <1>1, <1>2, <2>1, <2>2 DEF TypeOK
<1>4. status'[i] = "expired" /\ \A j \in Incident \ {i} : status'[j] = status[j]
  BY <1>1, <1>2 DEF TypeOK
<1>5. timers'[t] = None /\ \A u \in TimerId \ {t} : timers'[u] = timers[u]
  BY <1>1, <1>2 DEF TypeOK
<1>6. RungsOf(i)'
  <2>1. snapshot[i] \in Policy /\ currentStep[i] \in Nat
    BY <1>1 DEF TypeOK
  <2>2. RungsOf(i)
    BY InvOfOne
  <2>3. Rungs(snapshot[i]) \in Nat /\ currentStep[i] + 1 >= Rungs(snapshot[i])
    BY <2>1, RungsPositive DEF Exhausted
  <2>4. /\ currentStep[i] < Rungs(snapshot[i])
        /\ Len(notified[i]) = currentStep[i] + 1
        /\ \A k \in 1..Len(notified[i]) : notified[i][k] = k - 1
    BY <2>2 DEF RungsOf
  <2>5. \A m, n \in Nat : m < n /\ m + 1 >= n => m + 1 = n
    OBVIOUS
  <2>6. Len(notified[i]) = Rungs(snapshot[i])
    BY <2>1, <2>3, <2>4, <2>5
  <2>7. UNCHANGED <<snapshot, currentStep, notified>>
    BY <1>2
  <2> QED
    BY <2>4, <2>6, <2>7 DEF RungsOf
<1>7. \A u \in TimerId :
        timers'[u] # None /\ timers'[u].incident = i
            => timers'[u].kind = "resolve_timeout"
  <2> SUFFICES ASSUME NEW u \in TimerId, timers'[u] # None,
                      timers'[u].incident = i
               PROVE  timers'[u].kind = "resolve_timeout"
    OBVIOUS
  <2>1. u # t /\ timers'[u] = timers[u]
    BY <1>5
  <2>2. timers[u].kind \notin ChainKind
    BY <2>1, InvOfOne
  <2> QED
    BY <2>1, <2>2, InvOfOne DEF ChainKind, Timer, TimerKind
<1>8. \A u \in TimerId :
        timers'[u] # None /\ timers'[u].incident = i =>
            Agrees(timers[u].kind, timers[u].step, i)'
  BY <1>4, <1>7 DEF Agrees
<1>9. \A u, v \in TimerId :
        /\ timers'[u] # None /\ timers'[u].incident = i
        /\ timers'[v] # None /\ timers'[v].incident = i
        /\ timers'[u].kind \in ChainKind
        /\ timers'[v].kind \in ChainKind
        => u = v
  BY <1>7 DEF ChainKind
<1>10. Driven(i)'
  BY <1>4 DEF Driven
<1>11. \A u \in TimerId :
        \/ timers'[u] = timers[u]
        \/ /\ timers[u] # None => timers[u].incident = i
           /\ timers'[u] # None => timers'[u].incident = i
  BY <1>5
<1> QED
  BY <1>2, <1>3, <1>4, <1>6, <1>8, <1>9, <1>10, <1>11, OneIncidentStep
  DEF Open

(* A timer that finds nothing to do.  It was not the driver of an escalation*)
(* that has begun.                                                          *)
LEMMA CompleteOnlyInv ==
    ASSUME Inv, NEW t \in TimerId, NEW i \in Incident,
           timers[t] # None, timers[t].incident = i,
           \/ timers[t].kind \in {"group_wait", "resolve_timeout"}
           \/ timers[t].kind = "escalate"
                /\ status[i] # "triggered"
           \/ timers[t].kind = "repeat"
                /\ status[i] # "acknowledged",
           CompleteOnly(t),
           selected' = None,
           UNCHANGED <<groupKey, policyName, latest, policies>>
    PROVE  Inv'
<1> USE NoneAssumption
<1>1. TypeOK
  BY DEF Inv
<1>2. /\ timers' = [timers EXCEPT ![t] = None]
      /\ UNCHANGED <<status, snapshot, currentStep, notifications, notified>>
  BY DEF CompleteOnly, Complete, pageVars
<1>3. TypeOK'
  <2>1. timers' \in [TimerId -> Timer \cup {None}]
    BY <1>1, <1>2 DEF TypeOK
  <2> QED
    BY <1>1, <1>2, <2>1 DEF TypeOK
<1>4. timers'[t] = None /\ \A u \in TimerId \ {t} : timers'[u] = timers[u]
  BY <1>1, <1>2 DEF TypeOK
<1>5. status[i] # "none"
  BY InvOfOne
<1>6. RungsOf(i)'
  BY <1>2, <1>5, InvOfOne DEF RungsOf
<1>7. \A u \in TimerId :
        timers'[u] # None => u # t /\ timers'[u] = timers[u]
  BY <1>4
<1>8. \A u \in TimerId :
        timers'[u] # None /\ timers'[u].incident = i =>
            Agrees(timers[u].kind, timers[u].step, i)'
  <2> SUFFICES ASSUME NEW u \in TimerId, timers'[u] # None,
                      timers'[u].incident = i
               PROVE  Agrees(timers[u].kind, timers[u].step, i)'
    OBVIOUS
  <2>1. Agrees(timers[u].kind, timers[u].step, i)
    BY <1>5, <1>7, InvOfOne
  <2> QED
    BY <1>2, <1>7, <2>1 DEF Agrees
<1>9. \A u, v \in TimerId :
        /\ timers'[u] # None /\ timers'[u].incident = i
        /\ timers'[v] # None /\ timers'[v].incident = i
        /\ timers'[u].kind \in ChainKind
        /\ timers'[v].kind \in ChainKind
        => u = v
  BY <1>5, <1>7, InvOfOne
<1>10. snapshot'[i] # None => Driven(i)'
  <2> SUFFICES ASSUME snapshot[i] # None PROVE Driven(i)'
    BY <1>2
  <2>1. Driven(i)
    BY <1>5, InvOfOne
  <2>2. Agrees(timers[t].kind, timers[t].step, i)
    BY <1>5, InvOfOne
  <2>3. \A kind : HasTimer(i, kind) /\ timers[t].kind # kind
                    => HasTimer(i, kind)'
    BY <1>4 DEF HasTimer
  <2> QED
    BY <1>2, <2>1, <2>2, <2>3 DEF Driven, Agrees
<1>11. \A u \in TimerId :
        \/ timers'[u] = timers[u]
        \/ /\ timers[u] # None => timers[u].incident = i
           /\ timers'[u] # None => timers'[u].incident = i
  BY <1>4
<1> QED
  BY <1>2, <1>3, <1>5, <1>6, <1>8, <1>9, <1>10, <1>11, OneIncidentStep

(* A grace window that closes takes every other timer of the incident with  *)
(* it, and leaves the table as a manual resolution does.                    *)
LEMMA CloseInv ==
    ASSUME Inv, NEW t \in TimerId, NEW i \in Incident,
           timers[t] # None, timers[t].incident = i,
           ResolveIncident(i),
           Complete(t, Cancelled(i, TimerKind, {t})),
           selected' = None,
           UNCHANGED <<snapshot, currentStep, pageVars>>,
           UNCHANGED <<groupKey, policyName, latest, policies>>
    PROVE  Inv'
<1> USE NoneAssumption
<1>1. TypeOK
  BY DEF Inv
<1>2. /\ status[i] \in Open
      /\ status' = [status EXCEPT ![i] = "resolved"]
      /\ timers' = [Cancelled(i, TimerKind, {t}) EXCEPT ![t] = None]
      /\ UNCHANGED <<groupKey, policyName, snapshot, currentStep, latest,
                     pageVars, policies>>
  BY DEF ResolveIncident, Complete
<1>3. \A u \in TimerId :
        \/ timers'[u] = timers[u]
            /\ (timers[u] # None => timers[u].incident # i)
        \/ timers'[u] = None /\ timers[u] # None /\ timers[u].incident = i
  BY <1>1, <1>2 DEF Cancelled, PendingOf, Pending, TypeOK, Timer
<1>4. TypeOK'
  <2>1. timers' \in [TimerId -> Timer \cup {None}]
    BY <1>1, <1>2 DEF TypeOK, Cancelled
  <2>2. status' \in [Incident -> Status]
    BY <1>1, <1>2 DEF TypeOK, Status
  <2> QED
    BY <1>1, <1>2, <2>1, <2>2 DEF TypeOK, pageVars
<1>5. RungsOf(i)'
  BY <1>1, <1>2, InvOfOne DEF RungsOf, pageVars, TypeOK
<1>6. Driven(i)'
  BY <1>1, <1>2 DEF Driven, TypeOK
<1>7. \A u \in TimerId : timers'[u] # None => timers'[u].incident # i
  BY <1>3
<1> QED
  BY <1>1, <1>2, <1>3, <1>4, <1>5, <1>6, <1>7, OneIncidentStep
  DEF Open, TypeOK, pageVars

-----------------------------------------------------------------------------
(* The four handlers.  Each finds its timer in agreement with the incident, *)
(* so the index it fires is the next one and the policy is the snapshot, if *)
(* there is one.                                                            *)
LEMMA FireStepInv ==
    ASSUME Inv, NEW t \in TimerId, NEW i \in Incident, NEW policy \in Policy,
           timers[t] # None, timers[t].incident = i,
           timers[t].kind \in ChainKind,
           status[i] \in Open,
           snapshot[i] \in {None, policy},
           FireStep(t, i, policy, NextIndex(i)),
           selected' = None,
           UNCHANGED <<groupKey, policyName, latest, policies>>
    PROVE  Inv'
<1> USE NoneAssumption
<1>1. CASE Exhausted(policy, NextIndex(i))
  <2>1. snapshot[i] # None
    BY <1>1, RungsPositive DEF NextIndex, Exhausted
  <2>2. Exhausted(snapshot[i], currentStep[i] + 1)
    BY <1>1, <2>1 DEF NextIndex
  <2>3. Expire(t, i)
    BY <1>1 DEF FireStep
  <2> QED
    BY <2>1, <2>2, <2>3, ExpireInv
<1>2. CASE ~Exhausted(policy, NextIndex(i))
  <2>1. PageStep(t, i, policy, NextIndex(i))
    BY <1>2 DEF FireStep
  <2> QED
    BY <1>2, <2>1, PageStepInv
<1> QED
  BY <1>1, <1>2

LEMMA HandleInv ==
    ASSUME Inv, NEW t \in TimerId, NEW i \in Incident,
           timers[t] # None, timers[t].incident = i,
           Handle(t, i),
           selected' = None,
           UNCHANGED <<groupKey, policyName, latest, policies>>
    PROVE  Inv'
<1> USE NoneAssumption
<1>1. TypeOK
  BY DEF Inv
<1>2. Agrees(timers[t].kind, timers[t].step, i)
  BY InvOfOne
<1>3. snapshot[i] # None => snapshot[i] \in Policy
  BY <1>1 DEF TypeOK
<1>4. CASE timers[t].kind = "group_wait" /\ HandleGroupWait(t, i)
  <2>1. snapshot[i] = None /\ status[i] \in Open
    BY <1>2, <1>4 DEF Agrees
  <2>2. CASE status[i] = "triggered" /\ policies[policyName[i]] # None
    <3>1. policyName[i] \in PolicyName
      BY <2>2 DEF Inv, Rows
    <3>2. policies \in [PolicyName -> Policy \cup {None}]
      BY <1>1, PolicyTableAssumption DEF TypeOK
    <3>3. policies[policyName[i]] \in Policy
      BY <2>2, <3>1, <3>2
    <3>4. FireStep(t, i, policies[policyName[i]], NextIndex(i))
      BY <1>4, <2>1, <2>2 DEF HandleGroupWait, NextIndex
    <3> QED
      BY <1>4, <2>1, <3>3, <3>4, FireStepInv DEF ChainKind
  <2>3. CASE ~(status[i] = "triggered" /\ policies[policyName[i]] # None)
    <3>1. CompleteOnly(t)
      BY <1>4, <2>3 DEF HandleGroupWait
    <3> QED
      BY <1>4, <3>1, CompleteOnlyInv
  <2> QED
    BY <2>2, <2>3
<1>5. CASE timers[t].kind = "escalate" /\ HandleEscalate(t, i)
  <2>1. /\ status[i] = "triggered"
        /\ snapshot[i] # None
        /\ timers[t].step = currentStep[i] + 1
    BY <1>2, <1>5 DEF Agrees
  <2>2. FireStep(t, i, snapshot[i], NextIndex(i))
    BY <1>5, <2>1 DEF HandleEscalate, NextIndex
  <2> QED
    BY <1>3, <1>5, <2>1, <2>2, FireStepInv DEF ChainKind, Open
<1>6. CASE timers[t].kind = "repeat" /\ HandleAckTimeout(t, i)
  <2>1. status[i] = "acknowledged" /\ snapshot[i] # None
    BY <1>2, <1>6 DEF Agrees
  <2>2. FireStep(t, i, snapshot[i], NextIndex(i))
    BY <1>6, <2>1 DEF HandleAckTimeout, NextIndex
  <2> QED
    BY <1>3, <1>6, <2>1, <2>2, FireStepInv DEF ChainKind, Open
<1>7. CASE timers[t].kind = "resolve_timeout" /\ HandleResolveTimeout(t, i)
  <2>1. CASE AllAlertsResolved(latest[i]) /\ status[i] \in Open
    <3>1. /\ ResolveIncident(i)
          /\ Complete(t, Cancelled(i, TimerKind, {t}))
          /\ UNCHANGED <<snapshot, currentStep, pageVars>>
      BY <1>7, <2>1 DEF HandleResolveTimeout
    <3> QED
      BY <3>1, CloseInv
  <2>2. CASE ~(AllAlertsResolved(latest[i]) /\ status[i] \in Open)
    <3>1. CompleteOnly(t)
      BY <1>7, <2>2 DEF HandleResolveTimeout
    <3> QED
      BY <1>7, <3>1, CompleteOnlyInv
  <2> QED
    BY <2>1, <2>2
<1> QED
  BY <1>4, <1>5, <1>6, <1>7 DEF Handle

(* Steps that touch no row of the invariant: selecting, skipping, rolling   *)
(* back, reloading, and stuttering.                                         *)
LEMMA IdleInv ==
    ASSUME Inv,
           UNCHANGED <<incidentVars, latest, timers, pageVars>>,
           policies' \in PolicyTable,
           selected' \in TimerId \cup {None}
    PROVE  Inv'
<1>1. TypeOK'
  BY DEF Inv, TypeOK, incidentVars, pageVars
<1>2. \A i, kinds : PendingOf(i, kinds)' = PendingOf(i, kinds)
  BY DEF PendingOf, Pending
<1>3. ChainTimersAgree'
  BY DEF Inv, ChainTimersAgree, Pending, Agrees, incidentVars
<1>4. OneChainTimer' /\ NeverStranded'
  BY <1>2 DEF Inv, OneChainTimer, NeverStranded, incidentVars
<1> QED
  BY <1>1, <1>3, <1>4
  DEF Inv, Rows, OneOpenIncident, OnTheLadder, RungsInOrder,
      ExpiredMeansExhausted, incidentVars, pageVars

(* The invariant is inductive.                                              *)
LEMMA NextInv == Inv /\ [Next]_vars => Inv'
<1> SUFFICES ASSUME Inv, [Next]_vars PROVE Inv'
  OBVIOUS
<1>1. TypeOK
  BY DEF Inv
<1>2. ASSUME NEW g \in GroupKey, NEW f \in Fingerprint, Ingest(g, f)
      PROVE  Inv'
  <2>1. ASSUME NEW i \in Incident, NEW name \in PolicyName,
               OpenIncident(i, g, f, name)
        PROVE  Inv'
    BY <2>1, OpenIncidentInv
  <2>2. ASSUME NEW i \in OpenIncidents(g),
               AttachFiring(i, f) \/ AttachResolved(i, f)
        PROVE  Inv'
    BY <2>2, AttachFiringInv, AttachResolvedInv DEF OpenIncidents
  <2> QED
    BY <1>2, <2>1, <2>2 DEF Ingest
<1>3. ASSUME NEW i \in Incident, Acknowledge(i) PROVE Inv'
  BY <1>3, AcknowledgeInv
<1>4. ASSUME NEW i \in Incident, Resolve(i) PROVE Inv'
  BY <1>4, ResolveInv
<1>5. ASSUME NEW t \in TimerId, Select(t) PROVE Inv'
  BY <1>1, <1>5, IdleInv DEF Select, TypeOK
<1>6. ASSUME NEW t \in TimerId, Execute(t) PROVE Inv'
  <2>1. timers[t] # None /\ timers[t] \in Timer
    BY <1>1, <1>6 DEF Execute, Pending, TypeOK
  <2>2. PICK i \in Incident : timers[t].incident = i
    BY <2>1 DEF Timer
  <2> QED
    BY <1>6, <2>1, <2>2, HandleInv DEF Execute
<1>7. ASSUME NEW t \in TimerId, SkipNotPending(t) PROVE Inv'
  BY <1>1, <1>7, IdleInv DEF SkipNotPending, TypeOK
<1>8. CASE Rollback
  BY <1>1, <1>8, IdleInv DEF Rollback, TypeOK
<1>9. CASE Reload
  BY <1>1, <1>9, IdleInv DEF Reload, TypeOK
<1>10. CASE UNCHANGED vars
  BY <1>1, <1>10, IdleInv DEF vars, TypeOK
<1> QED
  BY <1>2, <1>3, <1>4, <1>5, <1>6, <1>7, <1>8, <1>9, <1>10 DEF Next

-----------------------------------------------------------------------------
(* The theorems.                                                            *)

(* Every reachable state satisfies the inductive invariant.                 *)
THEOREM Invariance == Spec => []Inv
BY InitInv, NextInv, PTL DEF Spec

(* Every column keeps its type.                                             *)
THEOREM TypeCorrect == Spec => []TypeOK
<1>1. Inv => TypeOK
  BY DEF Inv
<1> QED
  BY <1>1, Invariance, PTL

(* No two incidents of a group key are ever open together.                  *)
THEOREM OneOpenPerGroup == Spec => []OneOpenIncident
<1>1. Inv => OneOpenIncident
  BY DEF Inv
<1> QED
  BY <1>1, Invariance, PTL

(* At most one timer drives an escalation, and it agrees with the status and*)
(* the rung of its incident.                                                *)
THEOREM ChainIsDriven == Spec => []ChainIsSound
<1>1. Inv => ChainIsSound
  BY DEF Inv, ChainIsSound
<1> QED
  BY <1>1, Invariance, PTL

(* An escalation that has begun is never without the timer it needs.        *)
THEOREM NobodyIsStranded == Spec => []NeverStranded
<1>1. Inv => NeverStranded
  BY DEF Inv
<1> QED
  BY <1>1, Invariance, PTL

(* The rungs of the snapshot fire in order, once each, and an incident      *)
(* never expires with a rung left.                                          *)
THEOREM RungsFireInOrder == Spec => []LadderIsClimbed
<1>1. Inv => LadderIsClimbed
  BY DEF Inv, LadderIsClimbed
<1> QED
  BY <1>1, Invariance, PTL

-----------------------------------------------------------------------------
(* The grace window.  GraceMatchesAlerts is inductive on top of Inv, which  *)
(* says that a row not inserted has no timers.                              *)

IsGrace(t, i) ==
    timers[t] # None /\ timers[t].incident = i /\ timers[t].kind = "resolve_timeout"

GraceOf(i) ==
    /\ \A t, u \in TimerId : IsGrace(t, i) /\ IsGrace(u, i) => t = u
    /\ \A t \in TimerId : IsGrace(t, i) => AllAlertsResolved(latest[i])
    /\ (status[i] \in Open /\ AllAlertsResolved(latest[i]))
            => \E t \in TimerId : IsGrace(t, i)

(* GraceMatchesAlerts in terms of rows instead of sets of ids.              *)
LEMMA GraceRows ==
    /\ GraceMatchesAlerts <=> \A i \in Incident : GraceOf(i)
    /\ GraceMatchesAlerts' <=> \A i \in Incident : GraceOf(i)'
<1>1. \A i : PendingOf(i, {"resolve_timeout"}) = {t \in TimerId : IsGrace(t, i)}
  BY DEF PendingOf, Pending, IsGrace
<1>2. \A i : PendingOf(i, {"resolve_timeout"})' = {t \in TimerId : IsGrace(t, i)'}
  BY DEF PendingOf, Pending, IsGrace
<1> QED
  BY <1>1, <1>2 DEF GraceMatchesAlerts, GraceOf

(* An incident none of whose windows, alerts or openness changes.           *)
LEMMA GraceUntouched ==
    ASSUME NEW i \in Incident, GraceOf(i),
           latest'[i] = latest[i],
           status'[i] \in Open => status[i] \in Open,
           \A t \in TimerId : IsGrace(t, i)' <=> IsGrace(t, i)
    PROVE  GraceOf(i)'
BY DEF GraceOf, AllAlertsResolved

(* An incident that is left without a window, and needs none.               *)
LEMMA GraceAbsent ==
    ASSUME NEW i \in Incident,
           \A t \in TimerId : ~IsGrace(t, i)',
           status'[i] \in Open => ~AllAlertsResolved(latest'[i])
    PROVE  GraceOf(i)'
BY DEF GraceOf

(* A new incident has an alert that fires, and no window.                   *)
LEMMA OpenIncidentGrace ==
    ASSUME Inv, GraceMatchesAlerts,
           NEW i \in Incident, NEW g \in GroupKey, NEW f \in Fingerprint,
           NEW name \in PolicyName, OpenIncident(i, g, f, name)
    PROVE  GraceMatchesAlerts'
<1> USE NoneAssumption
<1> SUFFICES ASSUME NEW j \in Incident PROVE GraceOf(j)'
  BY GraceRows
<1>1. TypeOK
  BY DEF Inv
<1>2. PICK n \in TimerId :
        /\ timers[n] = None
        /\ timers' = [timers EXCEPT ![n] = NewTimer(i, "group_wait", 0)]
  BY DEF OpenIncident, FreshTimer, Pending
<1>3. \A t \in TimerId : IsGrace(t, j)' <=> IsGrace(t, j)
  BY <1>1, <1>2 DEF IsGrace, NewTimer, TypeOK
<1>4. /\ status[i] = "none" /\ status' = [status EXCEPT ![i] = "triggered"]
      /\ latest' = [latest EXCEPT ![i][f] = "firing"]
  BY DEF OpenIncident, InsertIncident, InsertAlert
<1>5. CASE j # i
  BY <1>1, <1>3, <1>4, <1>5, GraceRows, GraceUntouched DEF TypeOK
<1>6. CASE j = i
  <2>1. \A t \in TimerId : ~IsGrace(t, i)
    BY <1>4, InvOfOne DEF IsGrace
  <2>2. latest'[i][f] = "firing"
    BY <1>1, <1>4 DEF TypeOK
  <2> QED
    BY <1>3, <1>6, <2>1, <2>2, GraceAbsent DEF AllAlertsResolved
<1> QED
  BY <1>5, <1>6

(* A re-fire closes the window.                                             *)
LEMMA AttachFiringGrace ==
    ASSUME Inv, GraceMatchesAlerts,
           NEW i \in Incident, NEW f \in Fingerprint, AttachFiring(i, f)
    PROVE  GraceMatchesAlerts'
<1> USE NoneAssumption
<1> SUFFICES ASSUME NEW j \in Incident PROVE GraceOf(j)'
  BY GraceRows
<1>1. TypeOK
  BY DEF Inv
<1>2. /\ status' = status
      /\ latest' = [latest EXCEPT ![i][f] = "firing"]
      /\ timers' = Cancelled(i, {"resolve_timeout"}, {})
  BY DEF AttachFiring, InsertAlert, incidentVars
<1>3. \A t \in TimerId :
        timers'[t] = IF IsGrace(t, i) THEN None ELSE timers[t]
  BY <1>2 DEF Cancelled, PendingOf, Pending, IsGrace
<1>4. CASE j # i
  <2>1. \A t \in TimerId : IsGrace(t, j)' <=> IsGrace(t, j)
    BY <1>3, <1>4 DEF IsGrace
  <2> QED
    BY <1>1, <1>2, <1>4, <2>1, GraceRows, GraceUntouched DEF TypeOK
<1>5. CASE j = i
  <2>1. \A t \in TimerId : ~IsGrace(t, i)'
    BY <1>3 DEF IsGrace
  <2>2. latest'[i][f] = "firing"
    BY <1>1, <1>2 DEF TypeOK
  <2> QED
    BY <1>5, <2>1, <2>2, GraceAbsent DEF AllAlertsResolved
<1> QED
  BY <1>4, <1>5

(* A resolved alert starts the window anew, or leaves an incident whose     *)
(* window is not open.                                                      *)
LEMMA AttachResolvedGrace ==
    ASSUME Inv, GraceMatchesAlerts,
           NEW i \in Incident, NEW f \in Fingerprint, AttachResolved(i, f)
    PROVE  GraceMatchesAlerts'
<1> USE NoneAssumption
<1> SUFFICES ASSUME NEW j \in Incident PROVE GraceOf(j)'
  BY GraceRows
<1>1. TypeOK
  BY DEF Inv
<1>2. status' = status /\ latest' = [latest EXCEPT ![i][f] = "resolved"]
  BY DEF AttachResolved, InsertAlert, incidentVars
<1>3. CASE AllAlertsResolved(latest'[i])
  <2> DEFINE C == Cancelled(i, {"resolve_timeout"}, {})
  <2>1. PICK n \in TimerId :
            /\ timers[n] = None
            /\ timers' = [C EXCEPT ![n] = NewTimer(i, "resolve_timeout", 0)]
    BY <1>3 DEF AttachResolved, FreshTimer, Pending
  <2>2. /\ C = [t \in TimerId |-> C[t]]
        /\ \A t \in TimerId : C[t] = IF IsGrace(t, i) THEN None ELSE timers[t]
    BY DEF Cancelled, PendingOf, Pending, IsGrace
  <2> HIDE DEF C
  <2>3. \A t \in TimerId :
            timers'[t] = IF t = n THEN NewTimer(i, "resolve_timeout", 0)
                         ELSE IF IsGrace(t, i) THEN None ELSE timers[t]
    BY <2>1, <2>2
  <2>4. NewTimer(i, "resolve_timeout", 0) \in Timer
    BY DEF NewTimer, Timer, TimerKind
  <2>5. CASE j # i
    <3>1. \A t \in TimerId : IsGrace(t, j)' <=> IsGrace(t, j)
      BY <2>1, <2>3, <2>4, <2>5 DEF IsGrace, NewTimer
    <3> QED
      BY <1>1, <1>2, <2>5, <3>1, GraceRows, GraceUntouched DEF TypeOK
  <2>6. CASE j = i
    <3>1. \A t \in TimerId : IsGrace(t, i)' <=> t = n
      BY <2>3, <2>4 DEF IsGrace, NewTimer
    <3> QED
      BY <1>3, <2>6, <3>1 DEF GraceOf
  <2> QED
    BY <2>5, <2>6
<1>4. CASE ~AllAlertsResolved(latest'[i])
  <2>1. timers' = timers
    BY <1>4 DEF AttachResolved
  <2>2. \A t \in TimerId : IsGrace(t, j)' <=> IsGrace(t, j)
    BY <2>1 DEF IsGrace
  <2>3. CASE j # i
    BY <1>1, <1>2, <2>2, <2>3, GraceRows, GraceUntouched DEF TypeOK
  <2>4. CASE j = i
    <3>1. \A h \in Fingerprint :
            latest'[i][h] = IF h = f THEN "resolved" ELSE latest[i][h]
      BY <1>1, <1>2 DEF TypeOK
    <3>2. ~AllAlertsResolved(latest[i])
      BY <1>4, <3>1 DEF AllAlertsResolved
    <3>3. \A t \in TimerId : ~IsGrace(t, i)
      BY <3>2, GraceRows DEF GraceOf
    <3> QED
      BY <1>4, <2>2, <2>4, <3>3, GraceAbsent
  <2> QED
    BY <2>3, <2>4
<1> QED
  BY <1>3, <1>4

(* An acknowledgement touches no window.                                    *)
LEMMA AcknowledgeGrace ==
    ASSUME Inv, GraceMatchesAlerts, NEW i \in Incident, Acknowledge(i)
    PROVE  GraceMatchesAlerts'
<1> USE NoneAssumption
<1> SUFFICES ASSUME NEW j \in Incident PROVE GraceOf(j)'
  BY GraceRows
<1>1. TypeOK
  BY DEF Inv
<1>2. /\ status[i] = "triggered" /\ status' = [status EXCEPT ![i] = "acknowledged"]
      /\ latest' = latest
  BY DEF Acknowledge, AcknowledgeIncident
<1> DEFINE C == Cancelled(i, {"escalate"}, {})
<1>3. /\ C = [t \in TimerId |-> C[t]]
      /\ \A t \in TimerId :
            \/ C[t] = timers[t]
            \/ C[t] = None /\ timers[t] # None /\ timers[t].kind = "escalate"
  BY DEF Cancelled, PendingOf, Pending
<1>4. \/ timers' = C
      \/ \E n \in TimerId : /\ timers[n] = None
                            /\ timers' = [C EXCEPT ![n] = NewTimer(i, "repeat", 0)]
  BY DEF Acknowledge, FreshTimer, Pending
<1> HIDE DEF C
<1>5. \A t \in TimerId :
        \/ timers'[t] = timers[t]
        \/ timers'[t] = None /\ timers[t] # None /\ timers[t].kind = "escalate"
        \/ timers[t] = None /\ timers'[t] = NewTimer(i, "repeat", 0)
  BY <1>3, <1>4
<1>6. \A t \in TimerId : IsGrace(t, j)' <=> IsGrace(t, j)
  BY <1>5 DEF IsGrace, NewTimer
<1>7. status'[j] \in Open => status[j] \in Open
  BY <1>1, <1>2 DEF TypeOK, Open
<1> QED
  BY <1>2, <1>6, <1>7, GraceRows, GraceUntouched

(* A closed incident has no window, whoever closed it.                      *)
LEMMA CloseGrace ==
    ASSUME Inv, GraceMatchesAlerts, NEW i \in Incident,
           ResolveIncident(i), latest' = latest,
           \A t \in TimerId : timers'[t] =
                IF timers[t] # None /\ timers[t].incident = i THEN None ELSE timers[t]
    PROVE  GraceMatchesAlerts'
<1> USE NoneAssumption
<1> SUFFICES ASSUME NEW j \in Incident PROVE GraceOf(j)'
  BY GraceRows
<1>1. status' = [status EXCEPT ![i] = "resolved"] /\ TypeOK
  BY DEF ResolveIncident, Inv
<1>2. CASE j # i
  <2>1. \A t \in TimerId : IsGrace(t, j)' <=> IsGrace(t, j)
    BY <1>2 DEF IsGrace
  <2> QED
    BY <1>1, <1>2, <2>1, GraceRows, GraceUntouched DEF TypeOK
<1>3. CASE j = i
  <2>1. \A t \in TimerId : ~IsGrace(t, i)'
    BY DEF IsGrace
  <2> QED
    BY <1>1, <1>3, <2>1, GraceAbsent DEF TypeOK, Open
<1> QED
  BY <1>2, <1>3

(* A handler of the chain completes its own timer, and may start another of *)
(* the chain.                                                               *)
LEMMA ChainHandlerGrace ==
    ASSUME Inv, GraceMatchesAlerts, NEW t \in TimerId, NEW i \in Incident,
           timers[t] # None, timers[t].kind \in ChainKind,
           status[i] \in Open, latest' = latest,
           \/ CompleteOnly(t)
           \/ \E policy, index : FireStep(t, i, policy, index)
    PROVE  GraceMatchesAlerts'
<1> USE NoneAssumption
<1> SUFFICES ASSUME NEW j \in Incident PROVE GraceOf(j)'
  BY GraceRows
<1>1. TypeOK
  BY DEF Inv
<1>2. \/ /\ timers' = [timers EXCEPT ![t] = None]
         /\ status' = status \/ status' = [status EXCEPT ![i] = "expired"]
      \/ /\ \E n \in TimerId : \E step :
                /\ timers[n] = None
                /\ timers' = [[timers EXCEPT ![n] = NewTimer(i, "escalate", step)]
                                EXCEPT ![t] = None]
         /\ status' = [status EXCEPT ![i] = "triggered"]
  BY DEF CompleteOnly, Complete, FireStep, Expire, PageStep, FreshTimer, Pending
<1>3. \A u \in TimerId :
        \/ timers'[u] = timers[u]
        \/ timers'[u] = None /\ u = t
        \/ /\ timers[u] = None
           /\ \E step : timers'[u] = NewTimer(i, "escalate", step)
  BY <1>1, <1>2 DEF TypeOK
<1>4. \A u \in TimerId : IsGrace(u, j)' <=> IsGrace(u, j)
  <2> SUFFICES ASSUME NEW u \in TimerId PROVE IsGrace(u, j)' <=> IsGrace(u, j)
    OBVIOUS
  <2>1. CASE timers'[u] = timers[u]
    BY <2>1 DEF IsGrace
  <2>2. CASE timers'[u] = None /\ u = t
    <3>1. timers[t].kind # "resolve_timeout"
      BY DEF ChainKind
    <3> QED
      BY <2>2, <3>1 DEF IsGrace
  <2>3. CASE /\ timers[u] = None
             /\ \E step : timers'[u] = NewTimer(i, "escalate", step)
    <3>1. timers'[u].kind = "escalate"
      BY <2>3 DEF NewTimer
    <3> QED
      BY <2>3, <3>1 DEF IsGrace
  <2> QED
    BY <1>3, <2>1, <2>2, <2>3
<1>5. status'[j] \in Open => status[j] \in Open
  BY <1>1, <1>2 DEF TypeOK
<1> QED
  BY <1>4, <1>5, GraceRows, GraceUntouched

(* Executing a timer: a window is found closed only by a person or by       *)
(* expiry, and then the incident needs none.                                *)
LEMMA ExecuteGrace ==
    ASSUME Inv, GraceMatchesAlerts, NEW t \in TimerId, Execute(t)
    PROVE  GraceMatchesAlerts'
<1> USE NoneAssumption
<1>1. TypeOK
  BY DEF Inv
<1>2. timers[t] # None /\ timers[t] \in Timer /\ latest' = latest
  BY <1>1 DEF Execute, Pending, TypeOK
<1>3. PICK i \in Incident : timers[t].incident = i
  BY <1>2 DEF Timer
<1>4. Handle(t, i)
  BY <1>3 DEF Execute
<1>5. Agrees(timers[t].kind, timers[t].step, i)
  BY <1>2, <1>3, InvOfOne
<1>6. CASE \/ timers[t].kind = "group_wait" /\ HandleGroupWait(t, i)
           \/ timers[t].kind = "escalate" /\ HandleEscalate(t, i)
           \/ timers[t].kind = "repeat" /\ HandleAckTimeout(t, i)
  <2>1. timers[t].kind \in ChainKind /\ status[i] \in Open
    BY <1>5, <1>6 DEF ChainKind, Agrees, Open
  <2>2. CompleteOnly(t) \/ \E policy, index : FireStep(t, i, policy, index)
    BY <1>6 DEF HandleGroupWait, HandleEscalate, HandleAckTimeout
  <2> QED
    BY <1>2, <2>1, <2>2, ChainHandlerGrace
<1>7. CASE timers[t].kind = "resolve_timeout" /\ HandleResolveTimeout(t, i)
  <2>1. AllAlertsResolved(latest[i])
    BY <1>2, <1>3, <1>7, GraceRows DEF GraceOf, IsGrace
  <2>2. CASE status[i] \in Open
    <3>1. ResolveIncident(i) /\ Complete(t, Cancelled(i, TimerKind, {t}))
      BY <1>7, <2>1, <2>2 DEF HandleResolveTimeout
    <3>2. \A u \in TimerId : timers'[u] =
            IF timers[u] # None /\ timers[u].incident = i THEN None ELSE timers[u]
      BY <1>1, <1>2, <1>3, <3>1
      DEF Complete, Cancelled, PendingOf, Pending, TypeOK, Timer
    <3> QED
      BY <1>2, <3>1, <3>2, CloseGrace
  <2>3. CASE status[i] \notin Open
    <3>1. timers' = [timers EXCEPT ![t] = None] /\ status' = status
      BY <1>7, <2>3 DEF HandleResolveTimeout, CompleteOnly, Complete
    <3>2. \A u \in TimerId : timers'[u] = IF u = t THEN None ELSE timers[u]
      BY <1>1, <3>1 DEF TypeOK
    <3> SUFFICES ASSUME NEW j \in Incident PROVE GraceOf(j)'
      BY GraceRows
    <3>3. CASE j # i
      <4>1. \A u \in TimerId : IsGrace(u, j)' <=> IsGrace(u, j)
        BY <1>3, <3>2, <3>3 DEF IsGrace
      <4> QED
        BY <1>2, <3>1, <4>1, GraceRows, GraceUntouched
    <3>4. CASE j = i
      <4>1. \A u \in TimerId : IsGrace(u, i) => u = t
        BY <1>2, <1>3, <1>7, GraceRows DEF GraceOf, IsGrace
      <4>2. \A u \in TimerId : ~IsGrace(u, i)'
        BY <3>2, <4>1 DEF IsGrace
      <4> QED
        BY <2>3, <3>1, <3>4, <4>2, GraceAbsent
    <3> QED
      BY <3>3, <3>4
  <2> QED
    BY <2>2, <2>3
<1> QED
  BY <1>4, <1>6, <1>7 DEF Handle

(* An open incident has a window exactly while all of its alerts have       *)
(* resolved, and one at most; a re-fire between a window's selection and its*)
(* execution leaves none behind.                                            *)
THEOREM GraceFollowsAlerts == Spec => []GraceMatchesAlerts
<1>1. Init => GraceMatchesAlerts
  BY GraceRows DEF Init, GraceOf, IsGrace, Open
<1>2. Inv /\ GraceMatchesAlerts /\ [Next]_vars => GraceMatchesAlerts'
  <2> SUFFICES ASSUME Inv, GraceMatchesAlerts, [Next]_vars
               PROVE  GraceMatchesAlerts'
    OBVIOUS
  <2>1. ASSUME NEW g \in GroupKey, NEW f \in Fingerprint, Ingest(g, f)
        PROVE  GraceMatchesAlerts'
    BY <2>1, OpenIncidentGrace, AttachFiringGrace, AttachResolvedGrace
    DEF Ingest, OpenIncidents
  <2>2. ASSUME NEW i \in Incident, Acknowledge(i) PROVE GraceMatchesAlerts'
    BY <2>2, AcknowledgeGrace
  <2>3. ASSUME NEW i \in Incident, Resolve(i) PROVE GraceMatchesAlerts'
    <3>1. TypeOK
      BY DEF Inv
    <3>2. \A t \in TimerId : timers'[t] =
            IF timers[t] # None /\ timers[t].incident = i THEN None ELSE timers[t]
      BY <2>3, <3>1, NoneAssumption
      DEF Resolve, Cancelled, PendingOf, Pending, TypeOK, Timer
    <3> QED
      BY <2>3, <3>2, CloseGrace DEF Resolve
  <2>4. ASSUME NEW t \in TimerId, Execute(t) PROVE GraceMatchesAlerts'
    BY <2>4, ExecuteGrace
  <2>5. CASE \/ \E t \in TimerId : Select(t) \/ SkipNotPending(t)
             \/ Rollback \/ Reload \/ UNCHANGED vars
    <3>1. UNCHANGED <<status, latest, timers>>
      BY <2>5 DEF Select, SkipNotPending, Rollback, Reload, vars, incidentVars
    <3> QED
      BY <3>1, GraceRows, GraceUntouched DEF IsGrace
  <2> QED
    BY <2>1, <2>2, <2>3, <2>4, <2>5 DEF Next
<1> QED
  BY <1>1, <1>2, Invariance, PTL DEF Spec

(* A window that runs out closes its incident only if no alert has fired    *)
(* again, also when the re-fire came after the window was selected.         *)
THEOREM NoFiringIncidentCloses == Spec => NoCloseWhileFiring
<1>1. Inv =>
        \A i \in Incident, t \in TimerId :
            (Execute(t) /\ status'[i] = "resolved" /\ status[i] # "resolved")
                => \A f \in Fingerprint : latest[i][f] # "firing"
  <2> USE NoneAssumption
  <2> SUFFICES ASSUME Inv, NEW i \in Incident, NEW t \in TimerId, Execute(t),
                      status'[i] = "resolved", status[i] # "resolved"
               PROVE  \A f \in Fingerprint : latest[i][f] # "firing"
    OBVIOUS
  <2>1. status \in [Incident -> Status] /\ timers[t] \in Timer
    BY DEF Inv, TypeOK, Execute, Pending
  <2>2. PICK j \in Incident : timers[t].incident = j
    BY <2>1 DEF Timer
  <2>3. Handle(t, j)
    BY <2>2 DEF Execute
  <2>4. ASSUME \/ CompleteOnly(t)
               \/ \E policy, index : FireStep(t, j, policy, index)
        PROVE  FALSE
    <3>1. \/ status' = status
          \/ status' = [status EXCEPT ![j] = "expired"]
          \/ status' = [status EXCEPT ![j] = "triggered"]
      BY <2>4 DEF CompleteOnly, FireStep, Expire, PageStep
    <3> QED
      BY <2>1, <3>1
  <2>5. timers[t].kind = "resolve_timeout" /\ HandleResolveTimeout(t, j)
    BY <2>3, <2>4
    DEF Handle, HandleGroupWait, HandleEscalate, HandleAckTimeout
  <2>6. AllAlertsResolved(latest[j]) /\ status' = [status EXCEPT ![j] = "resolved"]
    BY <2>4, <2>5 DEF HandleResolveTimeout, ResolveIncident
  <2>7. i = j
    BY <2>1, <2>6
  <2> QED
    BY <2>6, <2>7 DEF AllAlertsResolved
<1> QED
  BY <1>1, Invariance, PTL DEF Spec, NoCloseWhileFiring

-----------------------------------------------------------------------------
(* Paging implements OnCall, for every value of the constants.             *)

(* The mapped variables of Promise.                                         *)
Climbed == [i \in Incident |-> Len(notified[i])]
Ladder == [i \in Incident |-> LadderOf(i)]

-----------------------------------------------------------------------------
(* What one step may do to the incidents, in the words of Paging.  Every    *)
(* property below is read off this case analysis.                           *)
Raised(i) ==
    /\ status[i] = "none"
    /\ status' = [status EXCEPT ![i] = "triggered"]
    /\ UNCHANGED <<snapshot, currentStep, notified>>

Moved(i, from, to) ==
    /\ status[i] \in from
    /\ status' = [status EXCEPT ![i] = to]
    /\ UNCHANGED <<snapshot, currentStep, notified>>

GaveUp(i) ==
    /\ Moved(i, Open, "expired")
    /\ snapshot[i] \in Policy
    /\ Len(notified[i]) = Rungs(snapshot[i])

Paged(i, policy) ==
    /\ \/ status[i] = "triggered"
       \/ /\ status[i] = "acknowledged"
          /\ snapshot[i] # None
          /\ timers[selected].kind = "repeat"
    /\ snapshot[i] \in {None, policy}
    /\ Len(notified[i]) = NextIndex(i)
    /\ NextIndex(i) < Rungs(policy)
    /\ status' = [status EXCEPT ![i] = "triggered"]
    /\ snapshot' = [snapshot EXCEPT ![i] = policy]
    /\ currentStep' = [currentStep EXCEPT ![i] = NextIndex(i)]
    /\ notified' = [notified EXCEPT ![i] = Append(@, NextIndex(i))]

Idle == UNCHANGED <<status, snapshot, currentStep, notified>>

StepOf(i) ==
    \/ Raised(i)
    \/ Moved(i, {"triggered"}, "acknowledged")
    \/ Moved(i, Open, "resolved")
    \/ GaveUp(i)
    \/ \E policy \in Policy : Paged(i, policy)

(* Firing a rung, or expiring after the last.                               *)
LEMMA FireStepShape ==
    ASSUME Inv, NEW t \in TimerId, NEW i \in Incident, NEW policy \in Policy,
           selected = t,
           \/ status[i] = "triggered"
           \/ /\ status[i] = "acknowledged"
              /\ snapshot[i] # None
              /\ timers[t].kind = "repeat",
           snapshot[i] \in {None, policy},
           FireStep(t, i, policy, NextIndex(i))
    PROVE  StepOf(i)
<1> USE NoneAssumption
<1>1. TypeOK
  BY DEF Inv
<1>2. /\ Rungs(policy) \in Nat /\ Rungs(policy) > 0
      /\ NextIndex(i) \in Nat
  BY <1>1, RungsPositive DEF NextIndex, TypeOK
<1>3. Len(notified[i]) = NextIndex(i)
  BY InvOfOne DEF RungsOf, NextIndex
<1>4. CASE Exhausted(policy, NextIndex(i))
  <2>1. snapshot[i] = policy
    BY <1>2, <1>4 DEF Exhausted, NextIndex
  <2>2. currentStep[i] < Rungs(policy) /\ currentStep[i] \in Nat
    BY <1>1, <2>1, InvOfOne DEF RungsOf, TypeOK
  <2>3. Len(notified[i]) = Rungs(snapshot[i])
    BY <1>2, <1>3, <1>4, <2>1, <2>2 DEF Exhausted, NextIndex
  <2>4. Moved(i, Open, "expired")
    BY <1>4 DEF FireStep, Expire, Moved, Open, pageVars
  <2> QED
    BY <2>1, <2>3, <2>4 DEF StepOf, GaveUp
<1>5. CASE ~Exhausted(policy, NextIndex(i))
  <2>1. NextIndex(i) < Rungs(policy)
    BY <1>2, <1>5 DEF Exhausted
  <2>2. Paged(i, policy)
    BY <1>3, <1>5, <2>1 DEF FireStep, PageStep, Paged
  <2> QED
    BY <2>2 DEF StepOf
<1> QED
  BY <1>4, <1>5

(* The four handlers.                                                       *)
LEMMA HandleShape ==
    ASSUME Inv, NEW t \in TimerId, NEW i \in Incident,
           selected = t, timers[t] # None, timers[t].incident = i,
           Handle(t, i)
    PROVE  Idle \/ StepOf(i)
<1> USE NoneAssumption
<1>1. TypeOK
  BY DEF Inv
<1>2. Agrees(timers[t].kind, timers[t].step, i)
  BY InvOfOne
<1>3. snapshot[i] # None => snapshot[i] \in Policy
  BY <1>1 DEF TypeOK
<1>4. ASSUME CompleteOnly(t) PROVE Idle
  BY <1>4 DEF CompleteOnly, Idle, pageVars
<1>5. CASE timers[t].kind = "group_wait" /\ HandleGroupWait(t, i)
  <2>1. snapshot[i] = None
    BY <1>2, <1>5 DEF Agrees
  <2>2. CASE status[i] = "triggered" /\ policies[policyName[i]] # None
    <3>1. policyName[i] \in PolicyName
      BY <2>2 DEF Inv, Rows
    <3>2. policies[policyName[i]] \in Policy
      BY <1>1, <2>2, <3>1, PolicyTableAssumption DEF TypeOK
    <3>3. FireStep(t, i, policies[policyName[i]], NextIndex(i))
      BY <1>5, <2>1, <2>2 DEF HandleGroupWait, NextIndex
    <3> QED
      BY <2>1, <2>2, <3>2, <3>3, FireStepShape
  <2>3. CASE ~(status[i] = "triggered" /\ policies[policyName[i]] # None)
    BY <1>4, <1>5, <2>3 DEF HandleGroupWait
  <2> QED
    BY <2>2, <2>3
<1>6. CASE timers[t].kind = "escalate" /\ HandleEscalate(t, i)
  <2>1. /\ status[i] = "triggered"
        /\ snapshot[i] # None
        /\ timers[t].step = currentStep[i] + 1
    BY <1>2, <1>6 DEF Agrees
  <2>2. FireStep(t, i, snapshot[i], NextIndex(i))
    BY <1>6, <2>1 DEF HandleEscalate, NextIndex
  <2> QED
    BY <1>3, <2>1, <2>2, FireStepShape
<1>7. CASE timers[t].kind = "repeat" /\ HandleAckTimeout(t, i)
  <2>1. status[i] = "acknowledged" /\ snapshot[i] # None
    BY <1>2, <1>7 DEF Agrees
  <2>2. FireStep(t, i, snapshot[i], NextIndex(i))
    BY <1>7, <2>1 DEF HandleAckTimeout, NextIndex
  <2> QED
    BY <1>3, <1>7, <2>1, <2>2, FireStepShape
<1>8. CASE timers[t].kind = "resolve_timeout" /\ HandleResolveTimeout(t, i)
  <2>1. CASE AllAlertsResolved(latest[i]) /\ status[i] \in Open
    <3>1. Moved(i, Open, "resolved")
      BY <1>8, <2>1 DEF HandleResolveTimeout, ResolveIncident, Moved, pageVars
    <3> QED
      BY <3>1 DEF StepOf
  <2>2. CASE ~(AllAlertsResolved(latest[i]) /\ status[i] \in Open)
    BY <1>4, <1>8, <2>2 DEF HandleResolveTimeout
  <2> QED
    BY <2>1, <2>2
<1> QED
  BY <1>5, <1>6, <1>7, <1>8 DEF Handle

(* Every step leaves the incidents alone or is one of these for one of them.*)
LEMMA StepShape ==
    Inv /\ [Next]_vars => Idle \/ \E i \in Incident : StepOf(i)
<1> SUFFICES ASSUME Inv, [Next]_vars
             PROVE  Idle \/ \E i \in Incident : StepOf(i)
  OBVIOUS
<1>1. ASSUME NEW g \in GroupKey, NEW f \in Fingerprint, Ingest(g, f)
      PROVE  Idle \/ \E i \in Incident : StepOf(i)
  <2>1. ASSUME NEW i \in Incident, NEW name \in PolicyName,
               OpenIncident(i, g, f, name)
        PROVE  StepOf(i)
    BY <2>1 DEF OpenIncident, InsertIncident, StepOf, Raised, pageVars
  <2>2. ASSUME NEW i \in OpenIncidents(g),
               AttachFiring(i, f) \/ AttachResolved(i, f)
        PROVE  Idle
    BY <2>2 DEF AttachFiring, AttachResolved, Idle, incidentVars, pageVars
  <2> QED
    BY <1>1, <2>1, <2>2 DEF Ingest
<1>2. ASSUME NEW i \in Incident, Acknowledge(i) PROVE StepOf(i)
  BY <1>2 DEF Acknowledge, AcknowledgeIncident, StepOf, Moved, pageVars
<1>3. ASSUME NEW i \in Incident, Resolve(i) PROVE StepOf(i)
  BY <1>3 DEF Resolve, ResolveIncident, StepOf, Moved, pageVars
<1>4. ASSUME NEW t \in TimerId, Execute(t)
      PROVE  Idle \/ \E i \in Incident : StepOf(i)
  <2>1. timers[t] # None /\ timers[t] \in Timer
    BY <1>4 DEF Inv, Execute, Pending, TypeOK
  <2>2. timers[t].incident \in Incident
    BY <2>1 DEF Timer
  <2> QED
    BY <1>4, <2>1, <2>2, HandleShape DEF Execute
<1>5. ASSUME NEW t \in TimerId, Select(t) \/ SkipNotPending(t) PROVE Idle
  BY <1>5 DEF Select, SkipNotPending, Idle, incidentVars, pageVars
<1>6. ASSUME Rollback \/ Reload \/ UNCHANGED vars PROVE Idle
  BY <1>6 DEF Rollback, Reload, vars, Idle, incidentVars, pageVars
<1> QED
  BY <1>1, <1>2, <1>3, <1>4, <1>5, <1>6 DEF Next

-----------------------------------------------------------------------------
(* The refinement.                                                          *)
LEMMA InitRefines == Init => Promise!OCInit
<1> SUFFICES ASSUME Init PROVE Promise!OCInit
  OBVIOUS
<1>1. \A i \in Incident : Len(notified[i]) = 0 /\ LadderOf(i) = 0
  BY DEF Init, LadderOf
<1> QED
  BY <1>1 DEF Init, Promise!OCInit

(* A step of one incident is a step of its ladder.                          *)
LEMMA StepRefines ==
    ASSUME Inv, NEW i \in Incident, StepOf(i)
    PROVE  Promise!OCNext
<1> USE NoneAssumption
<1>1. TypeOK
  BY DEF Inv
<1>2. ASSUME UNCHANGED <<snapshot, notified>>
      PROVE  /\ Ladder' = Ladder
             /\ Climbed' = Climbed
  BY <1>2 DEF Ladder, LadderOf, Climbed
<1>3. CASE Raised(i)
  <2>1. Promise!Raise(i)
    BY <1>2, <1>3 DEF Raised, Promise!Raise, Climbed, Ladder
  <2> QED
    BY <2>1 DEF Promise!OCNext
<1>4. CASE Moved(i, {"triggered"}, "acknowledged")
  <2>1. Promise!Take(i)
    BY <1>2, <1>4 DEF Moved, Promise!Take, Climbed, Ladder
  <2> QED
    BY <2>1 DEF Promise!OCNext
<1>5. CASE Moved(i, Open, "resolved")
  <2>1. Promise!Close(i)
    BY <1>2, <1>5 DEF Moved, Open, Promise!Close, Climbed, Ladder
  <2> QED
    BY <2>1 DEF Promise!OCNext
<1>6. CASE GaveUp(i)
  <2>1. /\ Ladder[i] = Rungs(snapshot[i])
        /\ Climbed[i] = Rungs(snapshot[i])
        /\ 0 < Rungs(snapshot[i])
    BY <1>6, RungsPositive DEF GaveUp, Ladder, LadderOf, Climbed
  <2>2. Promise!GiveUp(i)
    BY <1>2, <1>6, <2>1 DEF GaveUp, Moved, Open, Promise!GiveUp, Climbed, Ladder
  <2> QED
    BY <2>2 DEF Promise!OCNext
<1>7. ASSUME NEW policy \in Policy, Paged(i, policy)
      PROVE  Promise!OCNext
  <2>1. Rungs(policy) \in Nat /\ Rungs(policy) > 0 /\ NextIndex(i) \in Nat
    BY <1>1, RungsPositive DEF NextIndex, TypeOK
  <2>2. /\ \A j \in Incident : snapshot'[j] = IF j = i THEN policy ELSE snapshot[j]
        /\ \A j \in Incident \ {i} : notified'[j] = notified[j]
        /\ notified[i] \in Seq(Nat)
        /\ notified'[i] = Append(notified[i], NextIndex(i))
    BY <1>1, <1>7 DEF Paged, TypeOK
  <2>3. Climbed' = [Climbed EXCEPT ![i] = Climbed[i] + 1]
    <3>1. Len(notified'[i]) = Len(notified[i]) + 1
      BY <2>1, <2>2
    <3> QED
      BY <2>2, <3>1 DEF Climbed
  <2>4. Ladder' = [Ladder EXCEPT ![i] = Rungs(policy)]
    BY <2>2 DEF Ladder, LadderOf
  <2>5. Climbed[i] = NextIndex(i) /\ NextIndex(i) < Rungs(policy)
    BY <1>7 DEF Paged, Climbed
  <2>6. status' = [status EXCEPT ![i] = "triggered"]
    BY <1>7 DEF Paged
  <2>7. CASE snapshot[i] = None
    <3>1. status[i] = "triggered" /\ status' = status
      BY <1>1, <1>7, <2>6, <2>7 DEF Paged, TypeOK
    <3>2. Ladder[i] = 0 /\ Climbed[i] = 0
      BY <2>5, <2>7 DEF Ladder, LadderOf, NextIndex
    <3>3. Ladder'[i] = Rungs(policy) /\ Climbed' = [Climbed EXCEPT ![i] = 1]
      BY <2>3, <2>4, <3>2 DEF Ladder
    <3>4. Ladder' = [Ladder EXCEPT ![i] = Ladder'[i]]
      BY <2>4, <3>3
    <3>5. Promise!FirstRung(i)
      BY <2>1, <3>1, <3>2, <3>3, <3>4 DEF Promise!FirstRung, Climbed, Ladder
    <3> QED
      BY <3>5 DEF Promise!OCNext
  <2>8. CASE snapshot[i] # None
    <3>1. snapshot[i] = policy /\ NextIndex(i) = currentStep[i] + 1
      BY <1>7, <2>8 DEF Paged, NextIndex
    <3>2. Ladder[i] = Rungs(policy) /\ 0 < Climbed[i]
      BY <1>1, <2>5, <3>1, <2>8 DEF Ladder, LadderOf, TypeOK
    <3>3. Ladder' = Ladder
      BY <2>4, <3>2 DEF Ladder
    <3>4. CASE status[i] = "triggered"
      <4>1. status' = status
        BY <1>1, <2>6, <3>4 DEF TypeOK
      <4>2. Promise!NextRung(i)
        BY <2>3, <2>5, <3>2, <3>3, <3>4, <4>1
        DEF Promise!NextRung, Climbed, Ladder
      <4> QED
        BY <4>2 DEF Promise!OCNext
    <3>5. CASE status[i] = "acknowledged"
      <4>1. Promise!Resume(i)
        BY <2>3, <2>5, <2>6, <3>2, <3>3, <3>5
        DEF Promise!Resume, Climbed, Ladder
      <4> QED
        BY <4>1 DEF Promise!OCNext
    <3> QED
      BY <1>7, <3>4, <3>5 DEF Paged
  <2> QED
    BY <2>7, <2>8
<1> QED
  BY <1>3, <1>4, <1>5, <1>6, <1>7 DEF StepOf

(* Paging implements the promise of OnCall.                                 *)
THEOREM Refinement == Spec => KeepsThePromise
<1>1. Inv /\ [Next]_vars => [Promise!OCNext]_(Promise!ocVars)
  <2> SUFFICES ASSUME Inv, [Next]_vars
               PROVE  Promise!OCNext \/ UNCHANGED Promise!ocVars
    OBVIOUS
  <2>1. CASE Idle
    BY <2>1 DEF Idle, Promise!ocVars, LadderOf
  <2>2. ASSUME NEW i \in Incident, StepOf(i) PROVE Promise!OCNext
    BY <2>2, StepRefines
  <2> QED
    BY <2>1, <2>2, StepShape
<1> QED
  BY <1>1, InitRefines, Invariance, PTL
  DEF Spec, KeepsThePromise, Promise!OCSpec

-----------------------------------------------------------------------------
(* The policy an escalation follows never changes once it has begun.        *)
THEOREM FrozenSnapshot == Spec => SnapshotIsFrozen
<1>1. Inv /\ [Next]_vars =>
        \A i \in Incident : snapshot[i] # None => snapshot'[i] = snapshot[i]
  <2> SUFFICES ASSUME Inv, [Next]_vars, NEW i \in Incident, snapshot[i] # None
               PROVE  snapshot'[i] = snapshot[i]
    OBVIOUS
  <2>1. CASE Idle
    BY <2>1 DEF Idle
  <2>2. ASSUME NEW j \in Incident, StepOf(j)
        PROVE  snapshot'[i] = snapshot[i]
    BY <2>2 DEF Inv, TypeOK, StepOf, Raised, Moved, GaveUp, Paged
  <2> QED
    BY <2>1, <2>2, StepShape
<1> QED
  BY <1>1, Invariance, PTL DEF Spec, SnapshotIsFrozen

(* Resolved and expired incidents stay as they are.                         *)
THEOREM FinalStates == Spec => ClosedIsFinal
<1>1. Inv /\ [Next]_vars =>
        \A i \in Incident : status[i] \in {"resolved", "expired"} =>
            /\ status'[i] = status[i]
            /\ notified'[i] = notified[i]
            /\ currentStep'[i] = currentStep[i]
  <2> SUFFICES ASSUME Inv, [Next]_vars, NEW i \in Incident,
                      status[i] \in {"resolved", "expired"}
               PROVE  /\ status'[i] = status[i]
                      /\ notified'[i] = notified[i]
                      /\ currentStep'[i] = currentStep[i]
    OBVIOUS
  <2>1. CASE Idle
    BY <2>1 DEF Idle
  <2>2. ASSUME NEW j \in Incident, StepOf(j)
        PROVE  /\ status'[i] = status[i]
               /\ notified'[i] = notified[i]
               /\ currentStep'[i] = currentStep[i]
    BY <2>2 DEF Inv, TypeOK, StepOf, Raised, Moved, GaveUp, Paged, Open
  <2> QED
    BY <2>1, <2>2, StepShape
<1> QED
  BY <1>1, Invariance, PTL DEF Spec, ClosedIsFinal

(* An acknowledgement, or a closing, silences the incident at once: no page *)
(* follows it but that of its own timeout.                                  *)
THEOREM Silence == Spec => AckSilences
<1>1. Inv /\ [Next]_vars =>
        \A i \in Incident : notified'[i] # notified[i] =>
            \/ status[i] = "triggered"
            \/ /\ status[i] = "acknowledged"
               /\ timers[selected].kind = "repeat"
  <2> SUFFICES ASSUME Inv, [Next]_vars, NEW i \in Incident,
                      notified'[i] # notified[i]
               PROVE  \/ status[i] = "triggered"
                      \/ /\ status[i] = "acknowledged"
                         /\ timers[selected].kind = "repeat"
    OBVIOUS
  <2>1. CASE Idle
    BY <2>1 DEF Idle
  <2>2. ASSUME NEW j \in Incident, StepOf(j)
        PROVE  \/ status[i] = "triggered"
               \/ /\ status[i] = "acknowledged"
                  /\ timers[selected].kind = "repeat"
    BY <2>2 DEF Inv, TypeOK, StepOf, Raised, Moved, GaveUp, Paged
  <2> QED
    BY <2>1, <2>2, StepShape
<1> QED
  BY <1>1, Invariance, PTL DEF Spec, AckSilences
=============================================================================
