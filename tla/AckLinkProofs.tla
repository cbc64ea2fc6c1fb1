--------------------------- MODULE AckLinkProofs ---------------------------
(***************************************************************************)
(* Proofs about AckLink for any number of users, links and rungs, and      *)
(* whoever the rungs page.                                                 *)
(***************************************************************************)
EXTENDS AckLink, TLAPS

(* Every request carries a token, or none yet.                              *)
LinksAreTokens == link \in [Request -> Token \cup {<<>>}]

(* Before the first rung is paged there is nothing to answer.               *)
NothingBeforeFirstRung == ~paged => current_step = 0

(* No link runs ahead of the escalation.                                    *)
LinksAreOfRungsPaged == \A t \in minted : t.rung <= current_step

(* A request has read a rung no earlier than the one its link was sent on.  *)
ReadAfterSent == \A r \in Request : pc[r] = "verify" => link[r].rung <= seen[r]

(* Nobody is turned away, as long as VerifyAny tries every rung there is.   *)
NobodyRefused ==
    LastRung <= HardLimit => \A r \in Request : pc[r] # "invalid"

(* Somebody owns the incident only once it is no longer up for taking.      *)
OwnedMeansTaken ==
    /\ \A p, q \in owners : p = q
    /\ status = "triggered" => owners = {}

Inv ==
    /\ TypeOK
    /\ LinksAreTokens
    /\ NothingBeforeFirstRung
    /\ LinksAreOfRungsPaged
    /\ ReadAfterSent
    /\ NobodyRefused
    /\ OwnedMeansTaken

-----------------------------------------------------------------------------
(* The initial state satisfies the invariant.                               *)
LEMMA InitInv == Init => Inv
<1> SUFFICES ASSUME Init PROVE Inv
  OBVIOUS
<1>1. TypeOK
  BY AckLinkAssumption DEF Init, TypeOK, Rung, Token, Answer
<1>2. NothingBeforeFirstRung /\ LinksAreOfRungsPaged /\ OwnedMeansTaken
  BY DEF Init, NothingBeforeFirstRung, LinksAreOfRungsPaged, OwnedMeansTaken
<1>3. LinksAreTokens /\ ReadAfterSent /\ NobodyRefused
  BY DEF Init, LinksAreTokens, ReadAfterSent, NobodyRefused
<1> QED
  BY <1>1, <1>2, <1>3 DEF Inv

(* A rung is paged: its links are minted with the step they belong to, and  *)
(* nobody has the incident any more.                                        *)
LEMMA FireStepInv ==
    ASSUME Inv, NEW n \in Rung, current_step <= n, FireStep(n)
    PROVE  Inv'
<1>1. /\ minted' = minted \cup Links(n) /\ current_step' = n
      /\ status' = "triggered" /\ paged' = TRUE /\ owners' = {}
      /\ UNCHANGED <<pc, link, seen>>
  BY DEF FireStep
<1>2. Links(n) \subseteq Token /\ \A t \in Links(n) : t.rung = n
  BY AckLinkAssumption DEF Links, Token, Rung
<1>3. TypeOK'
  <2>1. paged' \in BOOLEAN /\ minted' \subseteq Token
    BY <1>1, <1>2 DEF Inv, TypeOK
  <2>2. \A r \in Request : pc'[r] # "idle" => link'[r] \in minted'
    BY <1>1 DEF Inv, TypeOK
  <2> QED
    BY <1>1, <2>1, <2>2 DEF Inv, TypeOK
<1>4. LinksAreOfRungsPaged'
  <2>1. \A t \in minted : t.rung \in Nat /\ t.rung <= n
    BY AckLinkAssumption DEF Inv, TypeOK, LinksAreOfRungsPaged, Token, Rung
  <2> QED
    BY <1>1, <1>2, <2>1 DEF LinksAreOfRungsPaged, Rung
<1>5. NothingBeforeFirstRung' /\ OwnedMeansTaken'
  BY <1>1 DEF NothingBeforeFirstRung, OwnedMeansTaken
<1>6. LinksAreTokens' /\ ReadAfterSent' /\ NobodyRefused'
  BY <1>1 DEF Inv, LinksAreTokens, ReadAfterSent, NobodyRefused
<1> QED
  BY <1>3, <1>4, <1>5, <1>6 DEF Inv

(* The status changes beside the requests: the incident is closed, or taken *)
(* by somebody when nobody had it.                                          *)
LEMMA StatusInv ==
    ASSUME Inv, Expire \/ Resolve \/ AcknowledgeByAPI
    PROVE  Inv'
<1>1. /\ status' \in {"acknowledged", "resolved", "expired"}
      /\ \/ owners' = owners
         \/ status = "triggered" /\ owners' = owners \cup {"api"}
      /\ UNCHANGED <<paged, current_step, minted, pc, link, seen>>
  BY DEF Expire, Resolve, Close, AcknowledgeByAPI
<1>2. TypeOK'
  BY <1>1 DEF Inv, TypeOK
<1>3. NothingBeforeFirstRung' /\ LinksAreOfRungsPaged'
  BY <1>1 DEF Inv, NothingBeforeFirstRung, LinksAreOfRungsPaged
<1>4. LinksAreTokens' /\ ReadAfterSent' /\ NobodyRefused'
  BY <1>1 DEF Inv, LinksAreTokens, ReadAfterSent, NobodyRefused
<1>5. OwnedMeansTaken'
  BY <1>1 DEF Inv, OwnedMeansTaken
<1> QED
  BY <1>2, <1>3, <1>4, <1>5 DEF Inv

-----------------------------------------------------------------------------
(* Somebody opens a link that was sent.                                     *)
LEMMA OpenInv ==
    ASSUME Inv, NEW r \in Request, Open(r)
    PROVE  Inv'
<1>1. PICK t \in minted : link' = [link EXCEPT ![r] = t]
  BY DEF Open
<1>2. /\ pc' = [pc EXCEPT ![r] = "read"]
      /\ UNCHANGED <<status, paged, current_step, minted, seen, owners>>
  BY DEF Open, incident
<1>3. /\ pc[r] = "idle"
      /\ \A q \in Request \ {r} : pc'[q] = pc[q]
      /\ pc'[r] = "read"
  BY <1>2 DEF Open, Inv, TypeOK
<1>4. \A q \in Request \ {r} : link'[q] = link[q]
  BY <1>1 DEF Inv, LinksAreTokens
<1>5. link'[r] = t /\ t \in Token
  BY <1>1 DEF Inv, TypeOK, LinksAreTokens
<1>6. TypeOK' /\ LinksAreTokens'
  <2>1. \A q \in Request : pc'[q] # "idle" => link'[q] \in minted'
    BY <1>2, <1>3, <1>4, <1>5 DEF Inv, TypeOK
  <2>2. link' \in [Request -> Token \cup {<<>>}]
    BY <1>1, <1>5 DEF Inv, LinksAreTokens
  <2> QED
    BY <1>2, <2>1, <2>2 DEF Inv, TypeOK, LinksAreTokens
<1>7. NothingBeforeFirstRung' /\ LinksAreOfRungsPaged' /\ OwnedMeansTaken'
  BY <1>2 DEF Inv, NothingBeforeFirstRung, LinksAreOfRungsPaged, OwnedMeansTaken
<1>8. ReadAfterSent'
  BY <1>2, <1>3, <1>4 DEF Inv, ReadAfterSent
<1>9. NobodyRefused'
  BY <1>3 DEF Inv, NobodyRefused
<1> QED
  BY <1>6, <1>7, <1>8, <1>9 DEF Inv

(* The request reads the incident: the escalation has come at least as far  *)
(* as the link's rung.                                                      *)
LEMMA ReadIncidentInv ==
    ASSUME Inv, NEW r \in Request, ReadIncident(r)
    PROVE  Inv'
<1>1. /\ pc[r] = "read"
      /\ seen' = [seen EXCEPT ![r] = current_step]
      /\ pc' = [pc EXCEPT ![r] = "verify"]
      /\ UNCHANGED <<status, paged, current_step, minted, link, owners>>
  BY DEF ReadIncident, incident
<1>2. /\ \A q \in Request \ {r} : pc'[q] = pc[q] /\ seen'[q] = seen[q]
      /\ pc'[r] = "verify" /\ seen'[r] = current_step
  BY <1>1 DEF Inv, TypeOK
<1>3. TypeOK' /\ LinksAreTokens'
  BY <1>1, <1>2 DEF Inv, TypeOK, LinksAreTokens
<1>4. NothingBeforeFirstRung' /\ LinksAreOfRungsPaged' /\ OwnedMeansTaken'
  BY <1>1 DEF Inv, NothingBeforeFirstRung, LinksAreOfRungsPaged, OwnedMeansTaken
<1>5. link[r].rung <= current_step
  BY <1>1 DEF Inv, TypeOK, LinksAreOfRungsPaged
<1>6. ReadAfterSent'
  BY <1>1, <1>2, <1>5 DEF Inv, ReadAfterSent
<1>7. NobodyRefused'
  BY <1>2 DEF Inv, NobodyRefused
<1> QED
  BY <1>3, <1>4, <1>6, <1>7 DEF Inv

(* The token is tried against every rung up to the one read, so its own is  *)
(* among them.                                                              *)
LEMMA CheckInv ==
    ASSUME Inv, NEW r \in Request, Check(r)
    PROVE  Inv'
<1>1. /\ pc[r] = "verify"
      /\ pc' = [pc EXCEPT ![r] = IF VerifyAny(link[r].user, seen[r], link[r])
                                 THEN "acknowledge" ELSE "invalid"]
      /\ UNCHANGED <<status, paged, current_step, minted, link, seen, owners>>
  BY DEF Check, incident
<1>2. /\ \A q \in Request \ {r} : pc'[q] = pc[q]
      /\ pc'[r] \in {"acknowledge", "invalid"}
      /\ VerifyAny(link[r].user, seen[r], link[r]) => pc'[r] = "acknowledge"
  BY <1>1 DEF Inv, TypeOK
<1>3. TypeOK' /\ LinksAreTokens'
  BY <1>1, <1>2 DEF Inv, TypeOK, LinksAreTokens, Answer
<1>4. NothingBeforeFirstRung' /\ LinksAreOfRungsPaged' /\ OwnedMeansTaken'
  BY <1>1 DEF Inv, NothingBeforeFirstRung, LinksAreOfRungsPaged, OwnedMeansTaken
<1>5. ReadAfterSent'
  BY <1>1, <1>2 DEF Inv, ReadAfterSent
<1>6. ASSUME LastRung <= HardLimit
      PROVE  VerifyAny(link[r].user, seen[r], link[r])
  <2>1. link[r] \in Token /\ link[r].rung <= seen[r]
    BY <1>1 DEF Inv, TypeOK, ReadAfterSent
  <2>2. /\ link[r].rung \in Rung /\ link[r].rung <= HardLimit
        /\ link[r] = [user |-> link[r].user, rung |-> link[r].rung]
    BY <1>6, <2>1, AckLinkAssumption DEF Token, Rung
  <2> QED
    BY <2>1, <2>2 DEF VerifyAny, Verify
<1>7. NobodyRefused'
  BY <1>2, <1>6 DEF Inv, NobodyRefused
<1> QED
  BY <1>3, <1>4, <1>5, <1>7 DEF Inv

(* The acknowledgement: it takes an incident that nobody has, or says that  *)
(* it is handled.                                                           *)
LEMMA AcknowledgeInv ==
    ASSUME Inv, NEW r \in Request, Acknowledge(r)
    PROVE  Inv'
<1>1. /\ \/ /\ status = "triggered" /\ status' = "acknowledged"
            /\ pc' = [pc EXCEPT ![r] = "acknowledged"]
            /\ owners' = owners \cup {r}
         \/ /\ pc' = [pc EXCEPT ![r] = "handled"]
            /\ UNCHANGED <<status, owners>>
      /\ UNCHANGED <<paged, current_step, minted, link, seen>>
      /\ pc[r] = "acknowledge"
  BY DEF Acknowledge, AwaitingAck
<1>2. /\ \A q \in Request \ {r} : pc'[q] = pc[q]
      /\ pc'[r] \in {"acknowledged", "handled"}
  BY <1>1 DEF Inv, TypeOK
<1>3. TypeOK' /\ LinksAreTokens'
  <2>1. pc' \in [Request -> {"idle", "read", "verify", "acknowledge"} \cup Answer]
    BY <1>1 DEF Inv, TypeOK, Answer
  <2>2. \A q \in Request : pc'[q] # "idle" => link'[q] \in minted'
    BY <1>1, <1>2 DEF Inv, TypeOK
  <2>3. status' \in {"triggered", "acknowledged", "resolved", "expired"}
    BY <1>1 DEF Inv, TypeOK
  <2> QED
    BY <1>1, <2>1, <2>2, <2>3 DEF Inv, TypeOK, LinksAreTokens
<1>4. NothingBeforeFirstRung' /\ LinksAreOfRungsPaged'
  BY <1>1 DEF Inv, NothingBeforeFirstRung, LinksAreOfRungsPaged
<1>5. OwnedMeansTaken'
  BY <1>1 DEF Inv, OwnedMeansTaken
<1>6. ReadAfterSent'
  BY <1>1, <1>2 DEF Inv, ReadAfterSent
<1>7. NobodyRefused'
  BY <1>2 DEF Inv, NobodyRefused
<1> QED
  BY <1>3, <1>4, <1>5, <1>6, <1>7 DEF Inv

-----------------------------------------------------------------------------
(* Inv holds in every reachable state.                                      *)
THEOREM Invariance == Spec => []Inv
<1>1. Inv /\ [Next]_akVars => Inv'
  <2> SUFFICES ASSUME Inv, [Next]_akVars PROVE Inv'
    OBVIOUS
  <2>1. CASE FirstStep
    <3>1. current_step = 0 /\ 0 \in Rung /\ FireStep(0)
      BY <2>1, AckLinkAssumption DEF FirstStep, Inv, NothingBeforeFirstRung, Rung
    <3> QED
      BY <3>1, FireStepInv
  <2>2. CASE NextStep
    <3>1. /\ FireStep(current_step + 1)
          /\ current_step + 1 \in Rung /\ current_step <= current_step + 1
      BY <2>2, AckLinkAssumption DEF NextStep, Inv, TypeOK, Rung
    <3> QED
      BY <3>1, FireStepInv
  <2>3. CASE Expire \/ Resolve \/ AcknowledgeByAPI
    BY <2>3, StatusInv
  <2>4. ASSUME NEW r \in Request, Handle(r) PROVE Inv'
    BY <2>4, OpenInv, ReadIncidentInv, CheckInv, AcknowledgeInv DEF Handle
  <2>5. CASE UNCHANGED akVars
    <3>1. UNCHANGED <<status, paged, current_step, minted, pc, link, seen, owners>>
      BY <2>5 DEF akVars, incident
    <3> QED
      BY <3>1 DEF Inv, TypeOK, LinksAreTokens, NothingBeforeFirstRung,
        LinksAreOfRungsPaged, ReadAfterSent, NobodyRefused,
        OwnedMeansTaken
  <2> QED
    BY <2>1, <2>2, <2>3, <2>4, <2>5 DEF Next
<1> QED
  BY <1>1, InitInv, PTL DEF Spec

(* Whoever is past opening a link carries one that was sent.                *)
THEOREM TypeCorrect == Spec => []TypeOK
<1>1. Inv => TypeOK
  BY DEF Inv
<1> QED
  BY <1>1, Invariance, PTL

(* Whoever was paged last is never turned away, however far the escalation  *)
(* gets between the read and the check of the link, if VerifyAny's limit is *)
(* not below the last rung.                                                 *)
THEOREM CurrentLinkAccepted ==
    ASSUME LastRung <= HardLimit
    PROVE  Spec => []CurrentLinkIsAccepted
<1>1. Inv => CurrentLinkIsAccepted
  BY DEF Inv, NobodyRefused, CurrentLinkIsAccepted
<1> QED
  BY <1>1, Invariance, PTL

(* One person per round of escalation is told that the incident is theirs,  *)
(* and a closed incident keeps its status and its owner.                    *)
THEOREM IncidentHasOneOwner == Spec => OneOwner
<1> DEFINE Single == \A p, q \in owners : p = q
           Closed == status \in {"resolved", "expired"} => UNCHANGED <<status, owners>>
<1>1. Inv => Single
  BY DEF Inv, OwnedMeansTaken
<1>2. [Next]_akVars => [Closed]_akVars
  BY DEF Next, FirstStep, NextStep, Expire, Resolve, AcknowledgeByAPI, Close, Handle,
    Open, ReadIncident, Check, Acknowledge, AwaitingAck, incident
<1>3. Spec => []Single
  BY <1>1, Invariance, PTL
<1>4. Spec => [][Closed]_akVars
  BY <1>2, PTL DEF Spec
<1> QED
  BY <1>3, <1>4 DEF OneOwner
=============================================================================
