------------------------------ MODULE AckLink ------------------------------
(***************************************************************************)
(* The one-tap acknowledgement of internal/ack and internal/api: every rung*)
(* of an escalation mints a link per recipient, and whoever opens one is   *)
(* answered in three steps, a read of the incident outside any transaction,*)
(* a check of the token against the rungs up to the one read, and the      *)
(* acknowledgement in a transaction of its own.  Escalation, expiry,       *)
(* resolution and other acknowledgements go on in between.                 *)
(*                                                                         *)
(* One incident.  A token stands for the user and rung it signs, and links *)
(* are opened as they were sent.                                           *)
(***************************************************************************)
EXTENDS Integers

CONSTANTS
    User,
    Request,    \* bound: links opened
    LastRung,   \* the last rung of the policy's last pass, counting from 0
    Paged,      \* the users each rung pages
    HardLimit   \* the last rung VerifyAny tries

ASSUME AckLinkAssumption ==
    /\ LastRung \in Nat /\ HardLimit \in Nat
    /\ Paged \in [0..LastRung -> SUBSET User]
    /\ "api" \notin Request

Rung == 0..LastRung
Token == [user : User, rung : Rung]

VARIABLES
    status,         \* of the incident
    paged,          \* group_wait is over, and the first rung was paged
    current_step,   \* the rung paged last, 0 before the first
    minted,         \* the tokens of the links sent out so far
    pc,             \* what each request does next, or how it was answered
    link,           \* the token a request carries
    seen,           \* current_step as the request read it
    owners          \* history: who was told that the incident is theirs
                    \* since it escalated last

incident == <<status, paged, current_step, minted>>
akVars == <<incident, pc, link, seen, owners>>

Answer == {"invalid", "acknowledged", "handled"}

TypeOK ==
    /\ status \in {"triggered", "acknowledged", "resolved", "expired"}
    /\ paged \in BOOLEAN
    /\ current_step \in Rung
    /\ minted \subseteq Token
    /\ pc \in [Request -> {"idle", "read", "verify", "acknowledge"} \cup Answer]
    /\ \A r \in Request : pc[r] # "idle" => link[r] \in minted
    /\ seen \in [Request -> Rung]
    /\ owners \subseteq Request \cup {"api"}

Init ==
    /\ status = "triggered"
    /\ paged = FALSE
    /\ current_step = 0
    /\ minted = {}
    /\ pc = [r \in Request |-> "idle"]
    /\ link = [r \in Request |-> <<>>]
    /\ seen = [r \in Request |-> 0]
    /\ owners = {}

-----------------------------------------------------------------------------
(* Escalation.                                                              *)

Links(n) == {[user |-> u, rung |-> n] : u \in Paged[n]}

(* Mutant: current_step is left to the transaction of the next rung.        *)
FireStepBehind(n) ==
    /\ minted' = minted \cup Links(n)
    /\ current_step' = IF n = 0 THEN 0 ELSE n - 1
    /\ status' = "triggered"
    /\ paged' = TRUE
    /\ owners' = {}
    /\ UNCHANGED <<pc, link, seen>>

(* fireStep: the rung's pages with their links, and current_step, at once.  *)
FireStep(n) ==
    /\ minted' = minted \cup Links(n)
    /\ current_step' = n
    /\ status' = "triggered"
    /\ paged' = TRUE
    /\ owners' = {}
    /\ UNCHANGED <<pc, link, seen>>

FirstStep == status = "triggered" /\ ~paged /\ FireStep(0)

(* The next rung, when its delay is over or after the ack timeout; neither  *)
(* is scheduled before the first.                                           *)
NextStep ==
    /\ paged
    /\ status \in {"triggered", "acknowledged"}
    /\ current_step < LastRung
    /\ FireStep(current_step + 1)

Close(outcome) ==
    /\ status' = outcome
    /\ UNCHANGED <<paged, current_step, minted, pc, link, seen, owners>>

Expire ==
    /\ paged
    /\ status \in {"triggered", "acknowledged"}
    /\ current_step = LastRung
    /\ Close("expired")

Resolve ==
    /\ status \in {"triggered", "acknowledged"}
    /\ Close("resolved")

(* By the API or a page of the UI.                                          *)
AcknowledgeByAPI ==
    /\ status = "triggered"
    /\ status' = "acknowledged"
    /\ owners' = owners \cup {"api"}
    /\ UNCHANGED <<paged, current_step, minted, pc, link, seen>>

-----------------------------------------------------------------------------
(* handleAckLink.                                                           *)

Open(r) ==
    /\ pc[r] = "idle"
    /\ \E t \in minted : link' = [link EXCEPT ![r] = t]
    /\ pc' = [pc EXCEPT ![r] = "read"]
    /\ UNCHANGED <<incident, seen, owners>>

(* Mutant: the rung the escalation is about to reach.                       *)
ReadIncidentAhead(r) ==
    /\ pc[r] = "read"
    /\ seen' = [seen EXCEPT ![r] = current_step + 1]
    /\ pc' = [pc EXCEPT ![r] = "verify"]
    /\ UNCHANGED <<incident, link, owners>>

ReadIncident(r) ==
    /\ pc[r] = "read"
    /\ seen' = [seen EXCEPT ![r] = current_step]
    /\ pc' = [pc EXCEPT ![r] = "verify"]
    /\ UNCHANGED <<incident, link, owners>>

Verify(user, n, token) == token = [user |-> user, rung |-> n]

VerifyAny(user, maxStep, token) ==
    \E n \in Rung : n <= maxStep /\ n <= HardLimit /\ Verify(user, n, token)

Check(r) ==
    /\ pc[r] = "verify"
    /\ pc' = [pc EXCEPT ![r] =
                IF VerifyAny(link[r].user, seen[r], link[r])
                THEN "acknowledge" ELSE "invalid"]
    /\ UNCHANGED <<incident, link, seen, owners>>

(* Mutant: whoever taps takes an incident that is open, taken or not.       *)
AwaitingAckWhileOpen == status \in {"triggered", "acknowledged"}

(* Mutant: the status was looked at when the link was checked.              *)
AwaitingAckUnchecked == TRUE

AwaitingAck == status = "triggered"

Acknowledge(r) ==
    /\ pc[r] = "acknowledge"
    /\ IF AwaitingAck
       THEN /\ status' = "acknowledged"
            /\ pc' = [pc EXCEPT ![r] = "acknowledged"]
            /\ owners' = owners \cup {r}
       ELSE /\ pc' = [pc EXCEPT ![r] = "handled"]
            /\ UNCHANGED <<status, owners>>
    /\ UNCHANGED <<paged, current_step, minted, link, seen>>

Handle(r) == Open(r) \/ ReadIncident(r) \/ Check(r) \/ Acknowledge(r)

Next ==
    \/ FirstStep \/ NextStep \/ Expire \/ Resolve \/ AcknowledgeByAPI
    \/ \E r \in Request : Handle(r)

Spec == Init /\ [][Next]_akVars

-----------------------------------------------------------------------------
(* Whoever was paged last can answer: a link of the current rung is never   *)
(* turned away, whatever the incident does between the page, the read and   *)
(* the check.  Nothing is asked here of the links of earlier rungs, which   *)
(* the comment on Token would have refused.                                 *)
CurrentLinkIsAccepted ==
    \A r \in Request : pc[r] = "invalid" => link[r].rung < current_step

(* The page says "Incident is yours" to one person per round of escalation, *)
(* and to nobody once the incident is closed, although requests are still   *)
(* under way then.                                                          *)
OneOwner ==
    /\ [](\A p, q \in owners : p = q)
    /\ [][(status \in {"resolved", "expired"}) => UNCHANGED <<status, owners>>]_akVars

-----------------------------------------------------------------------------
(* ack.go: a token is not "reusable on a later escalation step ... an       *)
(* earlier recipient should not be able to acknowledge work that has already*)
(* moved past them".  VerifyAny accepts the tokens of every earlier step.   *)
EarlierLinkIsRefused ==
    [][\A r \in Request :
        (pc[r] = "verify" /\ pc'[r] = "acknowledge") => link[r].rung = seen[r]]_akVars
=============================================================================
