---------------------------- MODULE OutboxProofs ----------------------------
(***************************************************************************)
(* Proofs about Outbox for any number of pages, channels and faults, any   *)
(* size of a batch and any back-off.                                       *)
(***************************************************************************)
EXTENDS Outbox, FiniteSetTheorems, TLAPS

(* What the inductive invariant says of types: TypeOK with the bounds that  *)
(* need the rest of it left out.                                            *)
Typed ==
    /\ BreakerTypeOK
    /\ state \in [Page -> NotificationState \cup {"none"}]
    /\ attempts \in [Page -> Nat]
    /\ next \in [Page -> Nat]
    /\ age \in [Page -> 0..Lease]
    /\ open = {} \/ \E p \in Page : open = {p}
    /\ loop \in Loop /\ wake \in BOOLEAN
    /\ flight \subseteq Flight
    /\ faults \in 0..MaxFaults
    /\ sends \in [Page -> Nat] /\ delivered \in [Page -> Nat]
    /\ doubt \in [Page -> Nat] /\ letters \in [Page -> Nat]

(* A page that is not committed has no row that anybody could claim.        *)
OpenRowsAreNew == \A p \in open : state[p] = "none"

(* A row has one goroutine at most, which works on its latest attempt.      *)
OneWorker ==
    /\ \A f, g \in flight : f.page = g.page => f = g
    /\ \A f \in flight : /\ state[f.page] = "sending"
                         /\ f.attempt = attempts[f.page] /\ f.attempt > 0

Idle(p) == \A f \in flight : f.page # p

(* An attempt that led to nothing has cost one of MaxAttempts, or a fault.  *)
AttemptsAreSpent ==
    \A p \in Page :
        /\ attempts[p] <= MaxAttempts + faults
        /\ (Idle(p) /\ state[p] \notin {"sent", "dead"})
                => attempts[p] < MaxAttempts + faults

(* A send belongs to an attempt, and is the only one of it.                 *)
OneSendPerAttempt ==
    /\ \A p \in Page : sends[p] <= attempts[p]
    /\ \A f \in flight : f.stage = "claimed" => sends[f.page] < attempts[f.page]

(* The page is known to have arrived, by the row or by its goroutine.       *)
Landed(p) ==
    \/ state[p] = "sent"
    \/ \E f \in flight : f.page = p /\ f.stage = "sent"

DeliveriesAreAccounted ==
    \A p \in Page :
        /\ delivered[p] <= 1 + doubt[p]
        /\ ~Landed(p) => delivered[p] <= doubt[p]
        /\ Landed(p) => delivered[p] > 0

LettersAreTrue ==
    \A p \in Page : letters[p] = IF state[p] = "dead" THEN 1 ELSE 0

(* A page that has not been tried waits for nothing.                        *)
NewPagesAreDue == \A p \in Page : state[p] \in {"none", "pending"} => next[p] = 0

(* Asleep and not woken, Run has no first page in front of it, committed or *)
(* about to be.                                                             *)
NoSleepOnFirstPage ==
    (loop = "idle" /\ ~wake) =>
        \A p \in FirstRung : state[p] # "pending" /\ p \notin open

Inv ==
    /\ Typed
    /\ OpenRowsAreNew
    /\ OneWorker
    /\ AttemptsAreSpent
    /\ OneSendPerAttempt
    /\ DeliveriesAreAccounted
    /\ LettersAreTrue
    /\ NewPagesAreDue
    /\ NoSleepOnFirstPage

-----------------------------------------------------------------------------
(* The breaker keeps its type, whatever channel is told of an outcome.      *)
LEMMA BreakerKeepsType ==
    ASSUME BreakerTypeOK, NEW ch,
           \/ UNCHANGED breaker
           \/ Succeed(ch)
           \/ Fail(ch)
           \/ BreakerElapse
           \/ BreakerRestart
    PROVE  BreakerTypeOK'
<1> USE BreakerAssumption
<1>1. CASE UNCHANGED breaker
  BY <1>1 DEF breaker, BreakerTypeOK
<1>2. CASE Succeed(ch)
  <2>1. 0 \in 0..Threshold /\ 0 \in 0..Cooldown
    OBVIOUS
  <2>2. failures' = [failures EXCEPT ![ch] = 0] /\ openFor' = [openFor EXCEPT ![ch] = 0]
    BY <1>2 DEF Succeed
  <2>3. failures' \in [Channel -> 0..Threshold]
    BY <2>1, <2>2 DEF BreakerTypeOK
  <2>4. openFor' \in [Channel -> 0..Cooldown]
    BY <2>1, <2>2 DEF BreakerTypeOK
  <2> QED
    BY <2>3, <2>4 DEF BreakerTypeOK
<1>3. CASE Fail(ch)
  <2>1. CASE ch \in Channel
    BY <1>3, <2>1 DEF Fail, BreakerTypeOK
  <2>2. CASE ch \notin Channel
    BY <1>3, <2>2 DEF Fail, BreakerTypeOK
  <2> QED
    BY <2>1, <2>2
<1>4. CASE BreakerElapse
  BY <1>4 DEF BreakerElapse, Down, BreakerTypeOK
<1>5. CASE BreakerRestart
  BY <1>5 DEF BreakerRestart, BreakerTypeOK
<1> QED
  BY <1>1, <1>2, <1>3, <1>4, <1>5

(* The initial state satisfies the invariant.                               *)
LEMMA InitInv == Init => Inv
<1> SUFFICES ASSUME Init PROVE Inv
  OBVIOUS
<1> USE BreakerAssumption, OutboxAssumption
<1>1. Typed
  <2>1. BreakerTypeOK
    BY DEF Init, BreakerInit, BreakerTypeOK
  <2>2. state \in [Page -> NotificationState \cup {"none"}]
    BY DEF Init, NotificationState
  <2>3. Zero \in [Page -> Nat] /\ Zero \in [Page -> 0..Lease]
    BY DEF Zero
  <2>4. loop \in Loop /\ wake \in BOOLEAN
    BY DEF Init, Loop
  <2> QED
    BY <2>1, <2>2, <2>3, <2>4 DEF Init, Typed
<1>2. /\ \A p \in Page : /\ state[p] = "none" /\ attempts[p] = 0 /\ next[p] = 0
                         /\ sends[p] = 0 /\ delivered[p] = 0 /\ doubt[p] = 0
                         /\ letters[p] = 0
      /\ flight = {} /\ open = {} /\ loop = "awake" /\ faults = 0
  BY DEF Init, Zero
<1>3. OpenRowsAreNew /\ OneWorker /\ NewPagesAreDue /\ NoSleepOnFirstPage
  BY <1>2 DEF OpenRowsAreNew, OneWorker, NewPagesAreDue, NoSleepOnFirstPage
<1>4. AttemptsAreSpent /\ OneSendPerAttempt
  BY <1>2 DEF AttemptsAreSpent, OneSendPerAttempt
<1>5. DeliveriesAreAccounted /\ LettersAreTrue
  BY <1>2 DEF DeliveriesAreAccounted, Landed, LettersAreTrue
<1> QED
  BY <1>1, <1>3, <1>4, <1>5 DEF Inv

-----------------------------------------------------------------------------
(* Steps of the loop, and of an escalation step.                            *)

(* A page is inserted: its token is in the channel before anybody can ask   *)
(* for it.                                                                  *)
LEMMA EnqueueInv ==
    ASSUME Inv, NEW p \in Page, Enqueue(p)
    PROVE  Inv'
<1>1. /\ open = {} /\ state[p] = "none" /\ open' = {p}
      /\ wake' = (wake \/ p \in FirstRung)
      /\ UNCHANGED <<state, attempts, next, age, loop, failures, openFor, flight,
                     faults, sends, delivered, doubt, letters>>
  BY DEF Enqueue, row, breaker, history
<1>2. Typed'
  <2>1. wake' \in BOOLEAN
    BY <1>1 DEF Inv, Typed
  <2> QED
    BY <1>1, <2>1 DEF Inv, Typed, BreakerTypeOK
<1>3. OpenRowsAreNew'
  BY <1>1 DEF OpenRowsAreNew
<1>4. OneWorker' /\ AttemptsAreSpent' /\ OneSendPerAttempt'
  BY <1>1 DEF Inv, OneWorker, AttemptsAreSpent, Idle, OneSendPerAttempt
<1>5. DeliveriesAreAccounted' /\ LettersAreTrue' /\ NewPagesAreDue'
  BY <1>1 DEF Inv, DeliveriesAreAccounted, Landed, LettersAreTrue, NewPagesAreDue
<1>6. NoSleepOnFirstPage'
  BY <1>1 DEF Inv, NoSleepOnFirstPage
<1> QED
  BY <1>2, <1>3, <1>4, <1>5, <1>6 DEF Inv

(* The transaction of an escalation step commits: its page has a row.       *)
LEMMA CommitInv ==
    ASSUME Inv, Commit
    PROVE  Inv'
<1>1. /\ open # {} /\ open' = {}
      /\ state' = [p \in Page |-> IF p \in open THEN "pending" ELSE state[p]]
      /\ UNCHANGED <<attempts, next, age, loop, wake, failures, openFor, flight,
                     faults, sends, delivered, doubt, letters>>
  BY DEF Commit, dispatch, breaker, history
<1>2. \A p \in Page : state'[p] = IF p \in open THEN "pending" ELSE state[p]
  BY <1>1
<1>3. \A p \in open : state[p] = "none"
  BY DEF Inv, OpenRowsAreNew
<1>4. Typed'
  <2>1. state' \in [Page -> NotificationState \cup {"none"}]
    BY <1>1 DEF Inv, Typed, NotificationState
  <2> QED
    BY <1>1, <2>1 DEF Inv, Typed, BreakerTypeOK
<1>5. OpenRowsAreNew'
  BY <1>1 DEF OpenRowsAreNew
<1>6. \A f \in flight : f.page \in Page
  BY DEF Inv, Typed, Flight
<1>7. OneWorker' /\ OneSendPerAttempt'
  BY <1>1, <1>2, <1>3, <1>6 DEF Inv, OneWorker, OneSendPerAttempt
<1>8. AttemptsAreSpent'
  BY <1>1, <1>2, <1>3 DEF Inv, AttemptsAreSpent, Idle
<1>9. DeliveriesAreAccounted' /\ LettersAreTrue'
  BY <1>1, <1>2, <1>3 DEF Inv, DeliveriesAreAccounted, Landed, LettersAreTrue
<1>10. NewPagesAreDue' /\ NoSleepOnFirstPage'
  BY <1>1, <1>2, <1>3, OutboxAssumption
  DEF Inv, NewPagesAreDue, NoSleepOnFirstPage
<1> QED
  BY <1>4, <1>5, <1>7, <1>8, <1>9, <1>10 DEF Inv

(* A fault that changes nothing but who is awake.                           *)
LEMMA FaultInv ==
    ASSUME Inv, Rollback \/ PollFails
    PROVE  Inv'
<1>1. /\ faults < MaxFaults /\ faults' = faults + 1
      /\ open' \in {open, {}} /\ (loop' = loop \/ loop' = "failed")
      /\ UNCHANGED <<state, attempts, next, age, wake, failures, openFor, flight,
                     sends, delivered, doubt, letters>>
  BY DEF Rollback, PollFails, row, dispatch, breaker, history
<1>2. faults \in 0..MaxFaults /\ faults' \in 0..MaxFaults
  BY <1>1, OutboxAssumption DEF Inv, Typed
<1>3. Typed'
  BY <1>1, <1>2 DEF Inv, Typed, BreakerTypeOK, Loop
<1>4. OpenRowsAreNew' /\ OneWorker' /\ OneSendPerAttempt'
  BY <1>1 DEF Inv, OpenRowsAreNew, OneWorker, OneSendPerAttempt
<1>5. AttemptsAreSpent'
  BY <1>1, <1>2, OutboxAssumption DEF Inv, Typed, AttemptsAreSpent, Idle
<1>6. DeliveriesAreAccounted' /\ LettersAreTrue' /\ NewPagesAreDue'
  BY <1>1 DEF Inv, DeliveriesAreAccounted, Landed, LettersAreTrue, NewPagesAreDue
<1>7. NoSleepOnFirstPage'
  BY <1>1 DEF Inv, NoSleepOnFirstPage
<1> QED
  BY <1>3, <1>4, <1>5, <1>6, <1>7 DEF Inv

(* The poll finds nothing: no page of a first rung is pending, since a page *)
(* not tried is due, and none is about to be, since the poll had the write  *)
(* connection.                                                              *)
LEMMA FindsNothingInv ==
    ASSUME Inv, FindsNothing
    PROVE  Inv'
<1>1. /\ open = {} /\ DueRows = {} /\ loop' = "idle"
      /\ UNCHANGED <<state, attempts, next, age, open, wake, failures, openFor, flight,
                     faults, sends, delivered, doubt, letters>>
  BY DEF FindsNothing, Polling, row, breaker, history
<1>2. Typed'
  BY <1>1 DEF Inv, Typed, BreakerTypeOK, Loop
<1>3. OpenRowsAreNew' /\ OneWorker' /\ AttemptsAreSpent' /\ OneSendPerAttempt'
  BY <1>1 DEF Inv, OpenRowsAreNew, OneWorker, AttemptsAreSpent, Idle,
    OneSendPerAttempt
<1>4. DeliveriesAreAccounted' /\ LettersAreTrue' /\ NewPagesAreDue'
  BY <1>1 DEF Inv, DeliveriesAreAccounted, Landed, LettersAreTrue, NewPagesAreDue
<1>5. \A p \in FirstRung : state[p] # "pending"
  BY <1>1, OutboxAssumption DEF Inv, NewPagesAreDue, DueRows, Due
<1>6. NoSleepOnFirstPage'
  BY <1>1, <1>5 DEF NoSleepOnFirstPage
<1> QED
  BY <1>2, <1>3, <1>4, <1>6 DEF Inv

(* Awake, Run has no sleep to answer for.                                   *)
LEMMA WakeUpInv ==
    ASSUME Inv, WakeUp
    PROVE  Inv'
<1>1. /\ loop' = "awake" /\ wake' = FALSE
      /\ UNCHANGED <<state, attempts, next, age, open, failures, openFor, flight,
                     faults, sends, delivered, doubt, letters>>
  BY DEF WakeUp, row, breaker, history
<1>2. Typed'
  <2>1. loop' \in Loop /\ wake' \in BOOLEAN
    BY <1>1 DEF Loop
  <2> QED
    BY <1>1, <2>1 DEF Inv, Typed, BreakerTypeOK
<1>3. OpenRowsAreNew' /\ OneWorker' /\ AttemptsAreSpent' /\ OneSendPerAttempt'
  BY <1>1 DEF Inv, OpenRowsAreNew, OneWorker, AttemptsAreSpent, Idle,
    OneSendPerAttempt
<1>4. DeliveriesAreAccounted' /\ LettersAreTrue' /\ NewPagesAreDue'
  BY <1>1 DEF Inv, DeliveriesAreAccounted, Landed, LettersAreTrue, NewPagesAreDue
<1>5. NoSleepOnFirstPage'
  BY <1>1 DEF NoSleepOnFirstPage
<1> QED
  BY <1>2, <1>3, <1>4, <1>5 DEF Inv

(* A batch is claimed while no goroutine is left of the last one: whoever   *)
(* had a row in sending before is gone, and has left an attempt to a fault. *)
LEMMA ClaimInv ==
    ASSUME Inv, Claim
    PROVE  Inv'
<1>1. PICK batch \in SUBSET DueRows : Claimed(batch)
  BY DEF Claim, kSubset
<1>2. /\ loop = "awake" /\ flight = {} /\ open = {}
      /\ UNCHANGED <<open, loop, wake, next, age, failures, openFor, faults, sends,
                     delivered, doubt, letters>>
  BY DEF Claim, Polling, dispatch, breaker
<1>3. batch \subseteq Page /\ \A p \in batch : state[p] \in {"pending", "failed", "sending"}
  BY DEF DueRows, Due
<1>4. \A p \in Page :
        /\ state'[p] = IF p \in batch THEN "sending" ELSE state[p]
        /\ attempts'[p] = IF p \in batch THEN attempts[p] + 1 ELSE attempts[p]
  BY <1>1 DEF Claimed
<1>5. /\ \A f \in flight' : /\ f.page \in batch /\ f.attempt = attempts[f.page] + 1
                            /\ f.stage = "claimed" /\ f \in Flight
      /\ \A f, g \in flight' : f.page = g.page => f = g
      /\ \A p \in batch : \E f \in flight' : f.page = p
  <2> DEFINE worker(p) == [page |-> p, attempt |-> attempts[p] + 1, stage |-> "claimed"]
  <2>1. flight' = {worker(p) : p \in batch}
    BY <1>1, <1>2 DEF Claimed
  <2>2. \A p \in batch : attempts[p] + 1 \in Nat
    BY <1>3 DEF Inv, Typed
  <2>3. \A p \in batch : /\ worker(p) \in Flight /\ worker(p).page = p
                         /\ worker(p).attempt = attempts[p] + 1
                         /\ worker(p).stage = "claimed"
    BY <1>3, <2>2 DEF Flight, Stage
  <2> HIDE DEF worker
  <2> QED
    BY <2>1, <2>3
<1>6. \A p \in Page : Idle(p)
  BY <1>2 DEF Idle
<1>7. Typed'
  <2>1. state' \in [Page -> NotificationState \cup {"none"}]
    BY <1>1 DEF Inv, Typed, NotificationState, Claimed
  <2>2. attempts' \in [Page -> Nat]
    <3>1. \A p \in Page : attempts[p] \in Nat /\ attempts[p] + 1 \in Nat
      BY DEF Inv, Typed
    <3>2. attempts' = [p \in Page |-> IF p \in batch THEN attempts[p] + 1
                                                    ELSE attempts[p]]
      BY <1>1 DEF Claimed
    <3> QED
      BY <3>1, <3>2
  <2> QED
    BY <1>2, <1>5, <2>1, <2>2 DEF Inv, Typed, BreakerTypeOK
<1>8. OpenRowsAreNew' /\ NewPagesAreDue' /\ NoSleepOnFirstPage'
  BY <1>2, <1>4 DEF Inv, OpenRowsAreNew, NewPagesAreDue, NoSleepOnFirstPage
<1>9. OneWorker'
  BY <1>3, <1>4, <1>5 DEF Inv, Typed, OneWorker
<1>10. AttemptsAreSpent'
  <2> SUFFICES ASSUME NEW p \in Page
               PROVE  /\ attempts'[p] <= MaxAttempts + faults'
                      /\ (Idle(p)' /\ state'[p] \notin {"sent", "dead"})
                            => attempts'[p] < MaxAttempts + faults'
    BY DEF AttemptsAreSpent
  <2>1. attempts[p] \in Nat /\ MaxAttempts \in Nat /\ faults \in Nat
    BY OutboxAssumption DEF Inv, Typed
  <2>2. attempts[p] <= MaxAttempts + faults
    BY DEF Inv, AttemptsAreSpent
  <2>3. CASE p \in batch
    <3>1. attempts[p] < MaxAttempts + faults
      BY <1>3, <1>6, <2>3 DEF Inv, AttemptsAreSpent
    <3>2. ~Idle(p)'
      BY <1>5, <2>3 DEF Idle
    <3> QED
      BY <1>2, <1>4, <2>1, <2>3, <3>1, <3>2
  <2>4. CASE p \notin batch
    BY <1>2, <1>4, <1>6, <2>1, <2>2, <2>4 DEF Inv, AttemptsAreSpent
  <2> QED
    BY <2>3, <2>4
<1>11. OneSendPerAttempt'
  BY <1>2, <1>3, <1>4, <1>5 DEF Inv, Typed, OneSendPerAttempt
<1>12. \A p \in Page : Landed(p)' <=> Landed(p)
  BY <1>2, <1>3, <1>4, <1>5 DEF Landed
<1>13. DeliveriesAreAccounted' /\ LettersAreTrue'
  BY <1>2, <1>3, <1>4, <1>12 DEF Inv, DeliveriesAreAccounted, LettersAreTrue
<1> QED
  BY <1>7, <1>8, <1>9, <1>10, <1>11, <1>13 DEF Inv

-----------------------------------------------------------------------------
(* Steps of a goroutine.                                                    *)

(* What it means that a goroutine goes on to the next stage.                *)
LEMMA Proceeding ==
    ASSUME Inv, NEW f \in flight, NEW s \in Stage, Proceeds(f, s)
    PROVE  /\ flight' \subseteq Flight
           /\ \A g \in flight' :
                \/ g \in flight /\ g.page # f.page
                \/ g.page = f.page /\ g.attempt = f.attempt /\ g.stage = s
           /\ \A g, h \in flight' : g.page = h.page => g = h
           /\ \A g \in flight : g.page # f.page => g \in flight'
           /\ \E g \in flight' : g.page = f.page /\ g.stage = s
<1> DEFINE moved == [f EXCEPT !.stage = s]
<1>1. f \in Flight /\ flight \subseteq Flight
  BY DEF Inv, Typed
<1>2. /\ moved \in Flight
      /\ moved.page = f.page /\ moved.attempt = f.attempt /\ moved.stage = s
  BY <1>1 DEF Flight
<1>3. flight' = (flight \ {f}) \cup {moved}
  BY DEF Proceeds
<1>4. \A g \in flight : g.page = f.page => g = f
  BY DEF Inv, OneWorker
<1> HIDE DEF moved
<1>5. \A g, h \in flight' : g.page = h.page => g = h
  BY <1>2, <1>3, <1>4 DEF Inv, OneWorker
<1> QED
  BY <1>1, <1>2, <1>3, <1>4, <1>5

(* A goroutine that goes on leaves the table as it is, and its own row in   *)
(* sending: what remains to be shown of the invariant concerns the history. *)
LEMMA ProceedingInv ==
    ASSUME Inv, NEW f \in flight, NEW s \in Stage, Proceeds(f, s),
           UNCHANGED <<row, open, dispatch, faults, letters>>,
           BreakerTypeOK',
           sends' \in [Page -> Nat], delivered' \in [Page -> Nat],
           doubt' \in [Page -> Nat],
           OneSendPerAttempt', DeliveriesAreAccounted'
    PROVE  Inv'
<1>1. UNCHANGED <<state, attempts, next, age, open, loop, wake, faults, letters>>
  BY DEF row, dispatch
<1>2. /\ flight' \subseteq Flight
      /\ \A g \in flight' :
            \/ g \in flight /\ g.page # f.page
            \/ g.page = f.page /\ g.attempt = f.attempt /\ g.stage = s
      /\ \A g, h \in flight' : g.page = h.page => g = h
      /\ \A g \in flight : g.page # f.page => g \in flight'
      /\ \E g \in flight' : g.page = f.page /\ g.stage = s
  BY Proceeding
<1>3. Typed'
  BY <1>1, <1>2 DEF Inv, Typed
<1>4. OpenRowsAreNew' /\ LettersAreTrue' /\ NewPagesAreDue' /\ NoSleepOnFirstPage'
  BY <1>1 DEF Inv, OpenRowsAreNew, LettersAreTrue, NewPagesAreDue, NoSleepOnFirstPage
<1>5. OneWorker'
  BY <1>1, <1>2 DEF Inv, OneWorker
<1>6. \A p \in Page : Idle(p)' => Idle(p)
  BY <1>2 DEF Idle
<1>7. AttemptsAreSpent'
  BY <1>1, <1>6 DEF Inv, AttemptsAreSpent
<1> QED
  BY <1>3, <1>4, <1>5, <1>7 DEF Inv

(* Where the page of a goroutine that goes on has landed: nowhere before its*)
(* send is answered.                                                        *)
LEMMA LandedBy ==
    ASSUME Inv, NEW f \in flight, f.stage # "sent", NEW s \in Stage, Proceeds(f, s),
           UNCHANGED state
    PROVE  /\ \A p \in Page \ {f.page} : Landed(p)' <=> Landed(p)
           /\ ~Landed(f.page)
           /\ Landed(f.page)' <=> s = "sent"
<1>1. /\ \A g \in flight' :
            \/ g \in flight /\ g.page # f.page
            \/ g.page = f.page /\ g.attempt = f.attempt /\ g.stage = s
      /\ \A g \in flight : g.page # f.page => g \in flight'
      /\ \E g \in flight' : g.page = f.page /\ g.stage = s
  BY Proceeding
<1>2. state[f.page] = "sending" /\ \A g \in flight : g.page = f.page => g = f
  BY DEF Inv, OneWorker
<1> QED
  BY <1>1, <1>2 DEF Landed

(* A goroutine asks the breaker, and begins its send or does not.           *)
LEMMA DeliverInv ==
    ASSUME Inv, NEW f \in flight, Deliver(f)
    PROVE  Inv'
<1>1. /\ f.stage = "claimed"
      /\ UNCHANGED <<row, open, dispatch, breaker, faults, delivered, doubt, letters>>
  BY DEF Deliver
<1>2. PICK s \in {"hopeless", "retry", "sending"} :
        /\ Proceeds(f, s)
        /\ sends' \in {sends, [sends EXCEPT ![f.page] = @ + 1]}
  BY DEF Deliver
<1>3. s \in Stage /\ s # "claimed" /\ s # "sent" /\ f.page \in Page
  BY <1>2 DEF Inv, Typed, Flight, Stage
<1>4. \A p \in Page : /\ sends[p] \in Nat /\ attempts[p] \in Nat
                      /\ p # f.page => sends'[p] = sends[p]
                      /\ sends'[f.page] \in {sends[f.page], sends[f.page] + 1}
  BY <1>2, <1>3 DEF Inv, Typed
<1>5. sends' \in [Page -> Nat]
  BY <1>2, <1>3, <1>4 DEF Inv, Typed
<1>6. OneSendPerAttempt'
  <2>1. attempts' = attempts
    BY <1>1 DEF row
  <2>2. \A g \in flight' : g.stage = "claimed" => g \in flight /\ g.page # f.page
    BY <1>2, <1>3, Proceeding
  <2>3. sends[f.page] < attempts[f.page]
    BY <1>1 DEF Inv, OneSendPerAttempt
  <2>4. \A g \in flight : g.page \in Page
    BY DEF Inv, Typed, Flight
  <2>5. \A p \in Page : sends'[p] <= attempts'[p]
    BY <1>3, <1>4, <2>1, <2>3 DEF Inv, OneSendPerAttempt
  <2> QED
    BY <1>4, <2>1, <2>2, <2>4, <2>5 DEF Inv, OneSendPerAttempt
<1>7. DeliveriesAreAccounted'
  <2>1. UNCHANGED <<state, delivered, doubt>>
    BY <1>1 DEF row
  <2>2. \A p \in Page : Landed(p)' <=> Landed(p)
    BY <1>1, <1>2, <1>3, <2>1, LandedBy
  <2> QED
    BY <2>1, <2>2 DEF Inv, DeliveriesAreAccounted
<1>8. BreakerTypeOK'
  BY <1>1, BreakerKeepsType DEF Inv, Typed
<1>9. delivered' \in [Page -> Nat] /\ doubt' \in [Page -> Nat]
  BY <1>1 DEF Inv, Typed
<1> QED
  BY <1>1, <1>2, <1>3, <1>5, <1>6, <1>7, <1>8, <1>9, ProceedingInv

(* A send is answered.  A page that has arrived is sent, or in doubt.       *)
LEMMA AnswerInv ==
    ASSUME Inv, NEW f \in flight, Answer(f)
    PROVE  Inv'
<1>1. /\ f.stage = "sending" /\ f.page \in Page
      /\ UNCHANGED <<row, open, dispatch, faults, sends, letters>>
  BY DEF Answer, SendSucceeds, SendFails, SendRefused, history, Inv, Typed, Flight
<1>2. PICK s \in {"sent", "retry", "hopeless"} :
        /\ Proceeds(f, s)
        /\ s = "sent" => /\ delivered' = [delivered EXCEPT ![f.page] = @ + 1]
                         /\ UNCHANGED doubt
        /\ s # "sent" => \/ UNCHANGED <<delivered, doubt>>
                         \/ /\ delivered' = [delivered EXCEPT ![f.page] = @ + 1]
                            /\ doubt' = [doubt EXCEPT ![f.page] = @ + 1]
  BY DEF Answer, SendSucceeds, SendFails, SendRefused, history
<1>3. s \in Stage /\ s # "claimed"
  BY <1>2 DEF Stage
<1>4. BreakerTypeOK'
  <2>1. Succeed(ChannelOf[f.page]) \/ Fail(ChannelOf[f.page])
    BY DEF Answer, SendSucceeds, SendFails, SendRefused
  <2> QED
    BY <2>1, BreakerKeepsType DEF Inv, Typed
<1>5. delivered \in [Page -> Nat] /\ doubt \in [Page -> Nat]
  BY DEF Inv, Typed
<1>6. delivered' \in [Page -> Nat] /\ doubt' \in [Page -> Nat]
  <2>1. delivered[f.page] + 1 \in Nat /\ doubt[f.page] + 1 \in Nat
    BY <1>1, <1>5
  <2> QED
    BY <1>2, <1>5, <2>1
<1>7. OneSendPerAttempt'
  <2>1. \A g \in flight' : g.stage = "claimed" => g \in flight
    BY <1>2, <1>3, Proceeding
  <2> QED
    BY <1>1, <2>1 DEF Inv, OneSendPerAttempt, row
<1>8. DeliveriesAreAccounted'
  <2>1. UNCHANGED state
    BY <1>1 DEF row
  <2>2. /\ \A p \in Page \ {f.page} : Landed(p)' <=> Landed(p)
        /\ ~Landed(f.page)
        /\ Landed(f.page)' <=> s = "sent"
    BY <1>1, <1>2, <1>3, <2>1, LandedBy
  <2>3. delivered[f.page] <= doubt[f.page]
    BY <1>1, <2>2 DEF Inv, DeliveriesAreAccounted
  <2>4. \A p \in Page \ {f.page} : delivered'[p] = delivered[p] /\ doubt'[p] = doubt[p]
    BY <1>2, <1>5
  <2>5. /\ delivered[f.page] \in Nat /\ doubt[f.page] \in Nat
        /\ s = "sent" => /\ delivered'[f.page] = delivered[f.page] + 1
                         /\ doubt'[f.page] = doubt[f.page]
        /\ s # "sent" => \/ /\ delivered'[f.page] = delivered[f.page]
                            /\ doubt'[f.page] = doubt[f.page]
                         \/ /\ delivered'[f.page] = delivered[f.page] + 1
                            /\ doubt'[f.page] = doubt[f.page] + 1
    BY <1>1, <1>2, <1>5
  <2>6. /\ delivered'[f.page] <= 1 + doubt'[f.page]
        /\ s # "sent" => delivered'[f.page] <= doubt'[f.page]
        /\ s = "sent" => delivered'[f.page] > 0
    BY <2>3, <2>5
  <2> QED
    BY <2>2, <2>4, <2>6 DEF Inv, DeliveriesAreAccounted
<1>9. sends' \in [Page -> Nat]
  BY <1>1 DEF Inv, Typed
<1> QED
  BY <1>1, <1>2, <1>3, <1>4, <1>6, <1>7, <1>8, <1>9, ProceedingInv

-----------------------------------------------------------------------------
(* Ends of a goroutine.                                                     *)

(* What it means that a goroutine returns and writes the state s.           *)
LEMMA Finishing ==
    ASSUME Inv, NEW f \in flight, NEW s \in {"sent", "failed", "dead"}, Finished(f, s)
    PROVE  /\ open = {} /\ f \in Flight /\ flight' = flight \ {f}
           /\ \A g \in flight' : g \in flight /\ g.page # f.page
           /\ \A g \in flight : g.page # f.page => g \in flight'
           /\ state' \in [Page -> NotificationState \cup {"none"}]
           /\ state[f.page] = "sending" /\ state'[f.page] = s
           /\ \A p \in Page \ {f.page} : state'[p] = state[p]
           /\ UNCHANGED <<attempts, age, open, loop, wake, failures, openFor, faults,
                          sends, delivered, doubt>>
<1>1. f \in Flight /\ state \in [Page -> NotificationState \cup {"none"}]
  BY DEF Inv, Typed
<1>2. /\ open = {} /\ flight' = flight \ {f}
      /\ state' = [state EXCEPT ![f.page] = s]
      /\ UNCHANGED <<attempts, age, open, loop, wake, failures, openFor, faults,
                     sends, delivered, doubt>>
  BY DEF Finished, dispatch, breaker, history
<1>3. state[f.page] = "sending" /\ \A g \in flight : g.page = f.page => g = f
  BY DEF Inv, OneWorker
<1>4. f.page \in Page /\ s \in NotificationState
  BY <1>1 DEF Flight, NotificationState
<1>5. state' \in [Page -> NotificationState \cup {"none"}]
  BY <1>1, <1>2, <1>4
<1> QED
  BY <1>1, <1>2, <1>3, <1>4, <1>5

(* An outcome is written: the row says what happened to the page.           *)
LEMMA OutcomeInv ==
    ASSUME Inv, NEW f \in flight, Outcome(f)
    PROVE  Inv'
<1>1. PICK s \in {"sent", "failed", "dead"} :
        /\ Finished(f, s)
        /\ s = "sent" <=> f.stage = "sent"
        /\ s = "failed" => f.attempt < MaxAttempts
        /\ s = "dead" => letters' = [letters EXCEPT ![f.page] = @ + 1]
        /\ s # "dead" => letters' = letters
        /\ \/ UNCHANGED next
           \/ \E wait \in Nat : next' = [next EXCEPT ![f.page] = wait]
  <2>1. CASE MarkSent(f)
    BY <2>1 DEF MarkSent
  <2>2. CASE MarkFailed(f)
    <3>1. f.attempt \in Nat /\ f.attempt > 0
      BY DEF Inv, Typed, Flight, OneWorker
    <3>2. Backoff(f.attempt) \subseteq Nat
      BY <3>1, OutboxAssumption DEF Backoff
    <3>3. f.attempt < MaxAttempts
      BY <2>2, <3>1, OutboxAssumption DEF MarkFailed, Exhausted
    <3> QED
      BY <2>2, <3>2, <3>3 DEF MarkFailed
  <2>3. CASE MarkDead(f)
    BY <2>3 DEF MarkDead
  <2> QED
    BY <2>1, <2>2, <2>3 DEF Outcome
<1>2. /\ open = {} /\ f \in Flight /\ flight' = flight \ {f}
      /\ \A g \in flight' : g \in flight /\ g.page # f.page
      /\ \A g \in flight : g.page # f.page => g \in flight'
      /\ state' \in [Page -> NotificationState \cup {"none"}]
      /\ state[f.page] = "sending" /\ state'[f.page] = s
      /\ \A p \in Page \ {f.page} : state'[p] = state[p]
      /\ UNCHANGED <<attempts, age, open, loop, wake, failures, openFor, faults,
                     sends, delivered, doubt>>
  BY <1>1, Finishing
<1>3. f.page \in Page
  BY <1>2 DEF Flight
<1>4. next' \in [Page -> Nat] /\ \A p \in Page \ {f.page} : next'[p] = next[p]
  BY <1>1, <1>3 DEF Inv, Typed
<1>5. letters \in [Page -> Nat] /\ letters[f.page] + 1 \in Nat
  BY <1>3 DEF Inv, Typed
<1>6. letters' \in [Page -> Nat]
  BY <1>1, <1>3, <1>5
<1>7. Typed'
  BY <1>2, <1>4, <1>6 DEF Inv, Typed, BreakerTypeOK
<1>8. OpenRowsAreNew' /\ OneSendPerAttempt'
  BY <1>2 DEF Inv, OpenRowsAreNew, OneSendPerAttempt
<1>9. OneWorker'
  <2>1. \A g \in flight : g.page \in Page
    BY DEF Inv, Typed, Flight
  <2> QED
    BY <1>2, <2>1 DEF Inv, OneWorker
<1>10. AttemptsAreSpent'
  <2>1. \A p \in Page \ {f.page} : Idle(p)' => Idle(p)
    BY <1>2 DEF Idle
  <2>2. state'[f.page] \notin {"sent", "dead"} => attempts[f.page] < MaxAttempts
    BY <1>1, <1>2 DEF Inv, OneWorker
  <2>3. attempts[f.page] \in Nat /\ MaxAttempts \in Nat /\ faults \in Nat
    BY <1>3, OutboxAssumption DEF Inv, Typed
  <2> QED
    BY <1>2, <1>3, <2>1, <2>2, <2>3 DEF Inv, AttemptsAreSpent
<1>11. DeliveriesAreAccounted'
  <2>1. \A p \in Page : Landed(p)' <=> Landed(p)
    <3> SUFFICES ASSUME NEW p \in Page PROVE Landed(p)' <=> Landed(p)
      OBVIOUS
    <3>1. CASE p = f.page
      BY <1>1, <1>2, <3>1 DEF Landed, Inv, OneWorker
    <3>2. CASE p # f.page
      BY <1>2, <3>2 DEF Landed
    <3> QED
      BY <3>1, <3>2
  <2> QED
    BY <1>2, <2>1 DEF Inv, DeliveriesAreAccounted
<1>12. LettersAreTrue'
  <2>1. letters[f.page] = 0
    BY <1>2, <1>3 DEF Inv, LettersAreTrue
  <2>2. letters'[f.page] = IF s = "dead" THEN 1 ELSE 0
    BY <1>1, <1>3, <1>5, <2>1
  <2>3. \A p \in Page \ {f.page} : letters'[p] = letters[p]
    BY <1>1, <1>3, <1>5
  <2> QED
    BY <1>2, <2>2, <2>3 DEF Inv, LettersAreTrue
<1>13. NewPagesAreDue' /\ NoSleepOnFirstPage'
  BY <1>2, <1>4, OutboxAssumption DEF Inv, NewPagesAreDue, NoSleepOnFirstPage
<1> QED
  BY <1>7, <1>8, <1>9, <1>10, <1>11, <1>12, <1>13 DEF Inv

(* An outcome is lost: its attempt goes to the fault, and a page that had   *)
(* arrived is in doubt.                                                     *)
LEMMA MarkFailsInv ==
    ASSUME Inv, NEW f \in flight, MarkFails(f)
    PROVE  Inv'
<1>1. /\ faults < MaxFaults /\ faults' = faults + 1
      /\ flight' = flight \ {f}
      /\ doubt' = [doubt EXCEPT ![f.page] = IF f.stage = "sent" THEN @ + 1 ELSE @]
      /\ UNCHANGED <<state, attempts, next, age, open, loop, wake, failures, openFor,
                     sends, delivered, letters>>
  BY DEF MarkFails, row, dispatch, breaker
<1>2. /\ faults \in Nat /\ MaxAttempts \in Nat /\ faults' \in 0..MaxFaults
      /\ f.page \in Page /\ doubt \in [Page -> Nat]
  BY <1>1, OutboxAssumption DEF Inv, Typed, Flight
<1>3. \A g \in flight : g.page = f.page => g = f
  BY DEF Inv, OneWorker
<1>4. Typed'
  <2>1. doubt[f.page] \in Nat /\ doubt[f.page] + 1 \in Nat
    BY <1>2
  <2>2. doubt' \in [Page -> Nat]
    BY <1>1, <1>2, <2>1
  <2> QED
    BY <1>1, <1>2, <2>2 DEF Inv, Typed, BreakerTypeOK
<1>5. OpenRowsAreNew' /\ OneWorker' /\ OneSendPerAttempt'
  BY <1>1 DEF Inv, OpenRowsAreNew, OneWorker, OneSendPerAttempt
<1>6. LettersAreTrue' /\ NewPagesAreDue' /\ NoSleepOnFirstPage'
  BY <1>1 DEF Inv, LettersAreTrue, NewPagesAreDue, NoSleepOnFirstPage
<1>7. AttemptsAreSpent'
  <2>1. \A p \in Page : attempts[p] \in Nat /\ attempts[p] <= MaxAttempts + faults
    BY DEF Inv, Typed, AttemptsAreSpent
  <2>2. \A p \in Page : /\ attempts[p] <= MaxAttempts + (faults + 1)
                        /\ attempts[p] < MaxAttempts + (faults + 1)
    BY <1>2, <2>1
  <2> QED
    BY <1>1, <2>2 DEF AttemptsAreSpent
<1>8. DeliveriesAreAccounted'
  <2> SUFFICES ASSUME NEW p \in Page
               PROVE  /\ delivered[p] <= 1 + doubt'[p]
                      /\ ~Landed(p)' => delivered[p] <= doubt'[p]
                      /\ Landed(p)' => delivered[p] > 0
    BY <1>1 DEF DeliveriesAreAccounted
  <2>1. /\ delivered[p] \in Nat /\ doubt[p] \in Nat
        /\ delivered[p] <= 1 + doubt[p]
        /\ ~Landed(p) => delivered[p] <= doubt[p]
        /\ Landed(p) => delivered[p] > 0
    BY DEF Inv, Typed, DeliveriesAreAccounted
  <2>2. CASE p # f.page
    <3>1. doubt'[p] = doubt[p] /\ (Landed(p)' <=> Landed(p))
      BY <1>1, <1>2, <2>2 DEF Landed
    <3> QED
      BY <2>1, <3>1
  <2>3. CASE p = f.page /\ f.stage = "sent"
    <3>1. doubt'[p] = doubt[p] + 1 /\ (Landed(p)' => Landed(p))
      BY <1>1, <1>2, <2>3 DEF Landed
    <3> QED
      BY <2>1, <3>1
  <2>4. CASE p = f.page /\ f.stage # "sent"
    <3>1. doubt'[p] = doubt[p] /\ (Landed(p)' <=> Landed(p))
      BY <1>1, <1>2, <1>3, <2>4 DEF Landed
    <3> QED
      BY <2>1, <3>1
  <2> QED
    BY <2>2, <2>3, <2>4
<1> QED
  BY <1>4, <1>5, <1>6, <1>7, <1>8 DEF Inv

(* Of a page there is at most one goroutine to count.                       *)
LEMMA OneToCount ==
    ASSUME Inv, NEW S \in SUBSET flight, NEW p
    PROVE  Cardinality({f \in S : f.page = p}) =
                IF \E f \in S : f.page = p THEN 1 ELSE 0
<1> DEFINE mine == {f \in S : f.page = p}
<1>1. CASE \E f \in S : f.page = p
  <2>1. PICK g \in S : g.page = p
    BY <1>1
  <2>2. mine = {g}
    BY <2>1 DEF Inv, OneWorker
  <2> QED
    BY <1>1, <2>2, FS_Singleton
<1>2. CASE ~\E f \in S : f.page = p
  <2>1. mine = {}
    BY <1>2
  <2> QED
    BY <1>2, <2>1, FS_EmptySet
<1> QED
  BY <1>1, <1>2

(* A crash: every goroutine is gone, and whatever may have arrived without a*)
(* word of it is in doubt.                                                  *)
LEMMA CrashInv ==
    ASSUME Inv, Crash
    PROVE  /\ Inv'
           /\ \A p \in Page : state[p] # "sending" => delivered'[p] = delivered[p]
<1>1. /\ faults < MaxFaults /\ faults' = faults + 1
      /\ flight' = {} /\ open' = {} /\ loop' = "awake" /\ wake' = FALSE
      /\ BreakerRestart
      /\ UNCHANGED <<state, attempts, next, age, sends, letters>>
  BY DEF Crash, row
<1> DEFINE N(p, S) == Cardinality({f \in S : f.page = p})
<1>2. PICK arrived \in SUBSET {f \in flight : f.stage = "sending"} :
        /\ delivered' = [p \in Page |-> delivered[p] + N(p, arrived)]
        /\ doubt' = [p \in Page |-> doubt[p] +
                        N(p, arrived \cup {f \in flight : f.stage = "sent"})]
  BY DEF Crash
<1> DEFINE lost == arrived \cup {f \in flight : f.stage = "sent"}
           came(p) == N(p, arrived)
           gone(p) == N(p, lost)
<1>3. \A p \in Page :
        /\ came(p) = IF \E f \in arrived : f.page = p THEN 1 ELSE 0
        /\ gone(p) = IF \E f \in lost : f.page = p THEN 1 ELSE 0
  BY OneToCount
<1>4. /\ delivered' = [p \in Page |-> delivered[p] + came(p)]
      /\ doubt' = [p \in Page |-> doubt[p] + gone(p)]
  BY <1>2
<1> HIDE DEF came, gone
<1>5. \A p \in Page :
        /\ delivered'[p] = delivered[p] + came(p)
        /\ doubt'[p] = doubt[p] + gone(p)
        /\ came(p) \in {0, 1} /\ gone(p) \in {0, 1} /\ came(p) <= gone(p)
        /\ delivered[p] \in Nat /\ doubt[p] \in Nat
  BY <1>3, <1>4 DEF Inv, Typed
<1>6. faults \in Nat /\ MaxAttempts \in Nat /\ faults' \in 0..MaxFaults
  BY <1>1, OutboxAssumption DEF Inv, Typed
<1>7. Typed'
  <2>1. BreakerTypeOK'
    BY <1>1, BreakerKeepsType DEF Inv, Typed
  <2>2. delivered' \in [Page -> Nat] /\ doubt' \in [Page -> Nat]
    <3>1. \A p \in Page : /\ delivered[p] + came(p) \in Nat
                          /\ doubt[p] + gone(p) \in Nat
      BY <1>5
    <3> QED
      BY <1>4, <3>1
  <2>3. loop' \in Loop /\ wake' \in BOOLEAN
    BY <1>1 DEF Loop
  <2> QED
    BY <1>1, <1>6, <2>1, <2>2, <2>3 DEF Inv, Typed
<1>8. OpenRowsAreNew' /\ OneWorker' /\ OneSendPerAttempt' /\ NoSleepOnFirstPage'
  BY <1>1 DEF Inv, OpenRowsAreNew, OneWorker, OneSendPerAttempt, NoSleepOnFirstPage
<1>9. LettersAreTrue' /\ NewPagesAreDue'
  BY <1>1 DEF Inv, LettersAreTrue, NewPagesAreDue
<1>10. AttemptsAreSpent'
  <2>1. \A p \in Page : attempts[p] \in Nat /\ attempts[p] <= MaxAttempts + faults
    BY DEF Inv, Typed, AttemptsAreSpent
  <2>2. \A p \in Page : /\ attempts[p] <= MaxAttempts + (faults + 1)
                        /\ attempts[p] < MaxAttempts + (faults + 1)
    BY <1>6, <2>1
  <2> QED
    BY <1>1, <2>2 DEF AttemptsAreSpent
<1>11. ASSUME NEW p \in Page, state[p] # "sending"
       PROVE  came(p) = 0 /\ gone(p) = 0
  <2>1. \A f \in flight : f.page # p
    BY <1>11 DEF Inv, OneWorker
  <2> QED
    BY <1>3, <2>1
<1>12. DeliveriesAreAccounted'
  <2> SUFFICES ASSUME NEW p \in Page
               PROVE  /\ delivered'[p] <= 1 + doubt'[p]
                      /\ state[p] # "sent" => delivered'[p] <= doubt'[p]
                      /\ state[p] = "sent" => delivered'[p] > 0
    BY <1>1 DEF DeliveriesAreAccounted, Landed
  <2>1. /\ delivered[p] <= 1 + doubt[p]
        /\ ~Landed(p) => delivered[p] <= doubt[p]
        /\ Landed(p) => delivered[p] > 0
    BY DEF Inv, DeliveriesAreAccounted
  <2>2. CASE state[p] = "sent"
    BY <1>5, <1>11, <2>1, <2>2 DEF Landed
  <2>3. CASE state[p] # "sent" /\ ~Landed(p)
    BY <1>5, <2>1, <2>3
  <2>4. CASE state[p] # "sent" /\ Landed(p)
    <3>1. PICK g \in flight : g.page = p /\ g.stage = "sent"
      BY <2>4 DEF Landed
    <3>2. \A f \in arrived : f.page # p
      BY <3>1 DEF Inv, OneWorker
    <3>3. came(p) = 0 /\ gone(p) = 1
      BY <1>3, <3>1, <3>2
    <3> QED
      BY <1>5, <2>1, <2>4, <3>3
  <2> QED
    BY <2>2, <2>3, <2>4
<1>13. \A p \in Page : state[p] # "sending" => delivered'[p] = delivered[p]
  BY <1>5, <1>11
<1> QED
  BY <1>7, <1>8, <1>9, <1>10, <1>12, <1>13 DEF Inv

(* A second goes by: a page not tried yet stays due.                        *)
LEMMA TickInv ==
    ASSUME Inv, Tick
    PROVE  Inv'
<1>1. /\ BreakerElapse /\ loop' = "awake"
      /\ next' = [p \in Page |-> Down(next[p])]
      /\ age' = [p \in Page |-> IF state[p] # "none" /\ age[p] < Lease
                                THEN age[p] + 1 ELSE age[p]]
      /\ UNCHANGED <<state, attempts, open, wake, flight, faults, sends, delivered,
                     doubt, letters>>
  BY DEF Tick, SleepIsOver
<1>2. \A p \in Page : /\ next[p] \in Nat /\ Down(next[p]) \in Nat
                      /\ next[p] = 0 => next'[p] = 0
  BY <1>1 DEF Down, Inv, Typed
<1>3. Typed'
  <2>1. BreakerTypeOK'
    BY <1>1, BreakerKeepsType DEF Inv, Typed
  <2>2. age' \in [Page -> 0..Lease]
    BY <1>1, OutboxAssumption DEF Inv, Typed
  <2>3. next' \in [Page -> Nat]
    BY <1>1, <1>2
  <2> QED
    BY <1>1, <2>1, <2>2, <2>3 DEF Inv, Typed, Loop
<1>4. OpenRowsAreNew' /\ OneWorker' /\ AttemptsAreSpent' /\ OneSendPerAttempt'
  BY <1>1 DEF Inv, OpenRowsAreNew, OneWorker, AttemptsAreSpent, Idle,
    OneSendPerAttempt
<1>5. DeliveriesAreAccounted' /\ LettersAreTrue'
  BY <1>1 DEF Inv, DeliveriesAreAccounted, Landed, LettersAreTrue
<1>6. NewPagesAreDue' /\ NoSleepOnFirstPage'
  BY <1>1, <1>2 DEF Inv, NewPagesAreDue, NoSleepOnFirstPage
<1> QED
  BY <1>3, <1>4, <1>5, <1>6 DEF Inv

-----------------------------------------------------------------------------
(* A stuttering step keeps the invariant.                                   *)
LEMMA StutterInv ==
    ASSUME Inv, UNCHANGED obVars
    PROVE  Inv'
<1>1. UNCHANGED <<state, attempts, next, age, open, loop, wake, failures, openFor,
                  flight, faults, sends, delivered, doubt, letters>>
  BY DEF obVars, row, dispatch, breaker, history
<1>2. Typed' /\ OpenRowsAreNew' /\ OneWorker'
  BY <1>1 DEF Inv, Typed, BreakerTypeOK, OpenRowsAreNew, OneWorker
<1>3. AttemptsAreSpent' /\ OneSendPerAttempt'
  BY <1>1 DEF Inv, AttemptsAreSpent, Idle, OneSendPerAttempt
<1>4. DeliveriesAreAccounted' /\ LettersAreTrue'
  BY <1>1 DEF Inv, DeliveriesAreAccounted, Landed, LettersAreTrue
<1>5. NewPagesAreDue' /\ NoSleepOnFirstPage'
  BY <1>1 DEF Inv, NewPagesAreDue, NoSleepOnFirstPage
<1> QED
  BY <1>2, <1>3, <1>4, <1>5 DEF Inv

(* Inv holds in every reachable state.                                      *)
THEOREM Invariance == Spec => []Inv
<1>1. Init => Inv
  BY InitInv
<1>2. Inv /\ [Next]_obVars => Inv'
  <2> SUFFICES ASSUME Inv, [Next]_obVars PROVE Inv'
    OBVIOUS
  <2>1. ASSUME NEW p \in Page, Enqueue(p) PROVE Inv'
    BY <2>1, EnqueueInv
  <2>2. CASE Commit
    BY <2>2, CommitInv
  <2>3. CASE Rollback \/ PollFails
    BY <2>3, FaultInv
  <2>4. CASE Claim
    BY <2>4, ClaimInv
  <2>5. CASE FindsNothing
    BY <2>5, FindsNothingInv
  <2>6. CASE WakeUp
    BY <2>6, WakeUpInv
  <2>7. ASSUME NEW f \in flight, Deliver(f) \/ Answer(f) \/ Outcome(f) \/ MarkFails(f)
        PROVE  Inv'
    BY <2>7, DeliverInv, AnswerInv, OutcomeInv, MarkFailsInv
  <2>8. CASE Crash
    BY <2>8, CrashInv
  <2>9. CASE Tick
    BY <2>9, TickInv
  <2>10. CASE UNCHANGED obVars
    BY <2>10, StutterInv
  <2> QED
    BY <2>1, <2>2, <2>3, <2>4, <2>5, <2>6, <2>7, <2>8, <2>9, <2>10 DEF Next, Work
<1> QED
  BY <1>1, <1>2, PTL DEF Spec

(* Rows, goroutines and counters keep their types; an escalation step has at*)
(* most one page uncommitted; attempts stay within their limit and faults.  *)
THEOREM TypeCorrect == Spec => []TypeOK
<1>1. Inv => TypeOK
  <2> SUFFICES ASSUME Inv PROVE TypeOK
    OBVIOUS
  <2>1. attempts \in [Page -> 0..(MaxAttempts + MaxFaults)]
    <3>1. \A p \in Page : attempts[p] \in 0..(MaxAttempts + MaxFaults)
      BY OutboxAssumption DEF Inv, Typed, AttemptsAreSpent
    <3> QED
      BY <3>1 DEF Inv, Typed
  <2>2. open \subseteq Page /\ Cardinality(open) <= 1
    <3>1. CASE open = {}
      BY <3>1, FS_EmptySet
    <3>2. ASSUME NEW p \in Page, open = {p}
          PROVE  open \subseteq Page /\ Cardinality(open) <= 1
      <4>1. Cardinality({p}) = 1
        BY FS_Singleton
      <4> QED
        BY <3>2, <4>1
    <3> QED
      BY <3>1, <3>2 DEF Inv, Typed
  <2> QED
    BY <2>1, <2>2 DEF Inv, Typed, TypeOK
<1> QED
  BY <1>1, Invariance, PTL

(* A page arrives more often than once only after attempts whose outcome    *)
(* nobody could know; no attempt is sent twice; and crashes and lost        *)
(* outcomes cost one attempt each beyond MaxAttempts.                       *)
THEOREM DuplicatesExplained == Spec => []DuplicatesAreExplained
<1>1. Inv => DuplicatesAreExplained
  BY DEF Inv, DeliveriesAreAccounted, OneSendPerAttempt, AttemptsAreSpent,
    DuplicatesAreExplained
<1> QED
  BY <1>1, Invariance, PTL

(* What is recorded as sent has arrived, and the timeline has a dead-letter *)
(* event of exactly the dead pages.                                         *)
THEOREM HonestOutbox == Spec => []OutboxIsHonest
<1>1. Inv => OutboxIsHonest
  BY DEF Inv, DeliveriesAreAccounted, Landed, LettersAreTrue, OutboxIsHonest
<1> QED
  BY <1>1, Invariance, PTL

(* A wake given before the commit is not lost: Run does not sleep on a page *)
(* of a first rung.                                                         *)
THEOREM NoLostWake == Spec => []WakeReachesPage
<1>1. Inv => WakeReachesPage
  BY DEF Inv, NoSleepOnFirstPage, WakeReachesPage
<1> QED
  BY <1>1, Invariance, PTL

(* A page that is sent or dead is never written or sent again: no goroutine *)
(* is left that could, and no claim takes it up.                            *)
THEOREM SettledStays == Spec => SettledIsFinal
<1> DEFINE Step ==
        \A p \in Page :
            state[p] \in {"sent", "dead"}
                => /\ state'[p] = state[p]
                   /\ delivered'[p] = delivered[p] /\ sends'[p] = sends[p]
<1>1. Inv /\ [Next]_obVars => [Step]_obVars
  <2> SUFFICES ASSUME Inv, Next, NEW p \in Page, state[p] \in {"sent", "dead"}
               PROVE  /\ state'[p] = state[p]
                      /\ delivered'[p] = delivered[p] /\ sends'[p] = sends[p]
    OBVIOUS
  <2>1. p \notin open /\ \A f \in flight : f.page # p
    BY DEF Inv, OpenRowsAreNew, OneWorker
  <2>2. /\ state \in [Page -> NotificationState \cup {"none"}]
        /\ delivered \in [Page -> Nat] /\ sends \in [Page -> Nat]
    BY DEF Inv, Typed
  <2>3. CASE \/ \E q \in Page : Enqueue(q)
             \/ Rollback \/ FindsNothing \/ PollFails \/ WakeUp
    BY <2>3 DEF Enqueue, Rollback, FindsNothing, PollFails, WakeUp, row, history
  <2>4. CASE Commit
    BY <2>1, <2>4 DEF Commit, history
  <2>5. CASE Claim
    <3>1. PICK batch \in SUBSET DueRows : Claimed(batch)
      BY <2>5 DEF Claim, kSubset
    <3>2. p \notin batch
      BY <3>1 DEF DueRows, Due
    <3> QED
      BY <2>5, <3>1, <3>2 DEF Claim, Claimed
  <2>6. ASSUME NEW f \in flight, Deliver(f)
        PROVE  UNCHANGED <<state, delivered>> /\ sends'[p] = sends[p]
    BY <2>1, <2>2, <2>6 DEF Deliver, row
  <2>7. ASSUME NEW f \in flight, Answer(f)
        PROVE  UNCHANGED <<state, sends>> /\ delivered'[p] = delivered[p]
    BY <2>1, <2>2, <2>7
    DEF Answer, SendSucceeds, SendFails, SendRefused, row, history
  <2>8. ASSUME NEW f \in flight, Outcome(f)
        PROVE  UNCHANGED <<delivered, sends>> /\ state'[p] = state[p]
    BY <2>1, <2>2, <2>8 DEF Outcome, MarkSent, MarkFailed, MarkDead, Finished, history
  <2>9. ASSUME NEW f \in flight, MarkFails(f)
        PROVE  UNCHANGED <<state, delivered, sends>>
    BY <2>9 DEF MarkFails, row
  <2>10. CASE Crash
    BY <2>10, CrashInv DEF Crash, row
  <2>11. CASE Tick
    BY <2>11 DEF Tick
  <2> QED
    BY <2>3, <2>4, <2>5, <2>6, <2>7, <2>8, <2>9, <2>10, <2>11 DEF Next, Work
<1> QED
  BY <1>1, Invariance, PTL DEF Spec, SettledIsFinal
=============================================================================
