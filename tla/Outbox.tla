------------------------------- MODULE Outbox -------------------------------
(***************************************************************************)
(* The notification outbox and its dispatcher, internal/notify over the    *)
(* notifications table: rows are claimed in batches, each claimed row is   *)
(* delivered by a goroutine of its own, asking and telling the breaker of  *)
(* its channel, and the outcome is written back, each in a transaction.    *)
(* The next batch is claimed when all goroutines of the last have returned;*)
(* a poll that finds nothing sleeps until it is woken or a second is over. *)
(*                                                                         *)
(* There is one write connection.  The transaction of an escalation step   *)
(* that has inserted its page and not committed is open; every transaction *)
(* of the dispatcher waits for it.  It is over within the second.          *)
(*                                                                         *)
(* A crash, or a shutdown that cancels them, loses the goroutines, the     *)
(* breaker, the token in the wake channel and the open transaction.  Any   *)
(* transaction may fail.  All are faults and count against MaxFaults.      *)
(***************************************************************************)
EXTENDS Breaker, FiniteSets, FiniteSetsExt

CONSTANTS
    Page,           \* outbox rows, one per idempotency key
    FirstRung,      \* those of the first rung, whose step wakes the dispatcher
    ChannelOf,      \* the channel of each page, in Channel or not
    Timed,          \* the channels that give each send a deadline
    Workers,        \* the size of a batch
    MaxAttempts,    \* attempts before a page is dead
    Lease,          \* seconds after which a row in sending is claimed again
    BackoffSteps,   \* the longest wait after attempt n, in seconds
    MaxFaults       \* bound: crashes and failed transactions

ASSUME OutboxAssumption ==
    /\ Workers \in Nat \ {0} /\ MaxAttempts \in Nat \ {0} /\ Lease \in Nat
    /\ BackoffSteps \in [1..MaxAttempts -> Nat]
    /\ MaxFaults \in Nat
    /\ FirstRung \subseteq Page /\ Timed \subseteq Channel

VARIABLES
    state,      \* of each row, or "none" before it is enqueued
    attempts,
    next,       \* seconds until next_attempt_at, 0 when it has come or is not set
    age,        \* seconds since created_at, up to Lease
    open,       \* the pages inserted by an escalation step, not yet committed
    loop,       \* Run: about to poll or waiting for its batch, or asleep
    wake,       \* the wake channel holds its one token
    flight,     \* the goroutines of the batch
    faults,
    sends,      \* history: how often a send of the page was begun
    delivered,  \* history: how often the page has reached its destination
    doubt,      \* history: attempts that may have reached it and did not say so
    letters     \* dead-letter events on the incident's timeline

row == <<state, attempts, next, age>>
dispatch == <<loop, wake>>
history == <<sends, delivered, doubt>>
obVars == <<row, open, dispatch, breaker, flight, faults, history, letters>>

NotificationState == {"pending", "sending", "sent", "failed", "dead"}

(* What a goroutine does next: ask the breaker, wait for the channel, or    *)
(* write down that the page was sent, may be retried, or never will be.     *)
Stage == {"claimed", "sending", "sent", "retry", "hopeless"}

(* Asleep after a poll that found nothing, or after one that failed.        *)
Loop == {"awake", "idle", "failed"}

Flight == [page : Page, attempt : Nat, stage : Stage]

TypeOK ==
    /\ BreakerTypeOK
    /\ state \in [Page -> NotificationState \cup {"none"}]
    /\ attempts \in [Page -> 0..(MaxAttempts + MaxFaults)]
    /\ next \in [Page -> Nat]
    /\ age \in [Page -> 0..Lease]
    /\ open \subseteq Page /\ Cardinality(open) <= 1
    /\ loop \in Loop /\ wake \in BOOLEAN
    /\ flight \subseteq Flight
    /\ faults \in 0..MaxFaults
    /\ sends \in [Page -> Nat] /\ delivered \in [Page -> Nat]
    /\ doubt \in [Page -> Nat] /\ letters \in [Page -> Nat]

Zero == [p \in Page |-> 0]

Init ==
    /\ BreakerInit
    /\ state = [p \in Page |-> "none"]
    /\ attempts = Zero /\ next = Zero /\ age = Zero
    /\ open = {} /\ loop = "awake" /\ wake = FALSE
    /\ flight = {} /\ faults = 0
    /\ sends = Zero /\ delivered = Zero /\ doubt = Zero
    /\ letters = Zero

-----------------------------------------------------------------------------
(* An escalation step inserts its page, and wakes the dispatcher before its *)
(* transaction is over.  A second insert of the key changes nothing.        *)
Enqueue(p) ==
    /\ open = {}
    /\ state[p] = "none"
    /\ open' = {p}
    /\ wake' = (wake \/ p \in FirstRung)
    /\ UNCHANGED <<row, loop, breaker, flight, faults, history, letters>>

Commit ==
    /\ open # {}
    /\ state' = [p \in Page |-> IF p \in open THEN "pending" ELSE state[p]]
    /\ open' = {}
    /\ UNCHANGED <<attempts, next, age, dispatch, breaker, flight, faults, history,
                   letters>>

(* The step fails after all; its timer will bring it back.                  *)
Rollback ==
    /\ open # {}
    /\ faults < MaxFaults
    /\ faults' = faults + 1
    /\ open' = {}
    /\ UNCHANGED <<row, dispatch, breaker, flight, history, letters>>

(* Mutant: a row left in sending is never taken up again.                   *)
DueUnlessSending(p) == state[p] \in {"pending", "failed"} /\ next[p] = 0

(* Mutant: the conditions of the query bind in the wrong order.             *)
DueOnceItsTimeHasCome(p) == state[p] # "none" /\ next[p] = 0

Due(p) ==
    \/ state[p] \in {"pending", "failed"} /\ next[p] = 0
    \/ state[p] = "sending" /\ age[p] = Lease

(* ClaimDueNotifications.  Which of the due rows come first is left open.   *)
Claimed(batch) ==
    /\ state' = [p \in Page |-> IF p \in batch THEN "sending" ELSE state[p]]
    /\ attempts' = [p \in Page |->
                        IF p \in batch THEN attempts[p] + 1 ELSE attempts[p]]
    /\ flight' = flight \cup {[page |-> p, attempt |-> attempts[p] + 1,
                               stage |-> "claimed"] : p \in batch}

DueRows == {p \in Page : Due(p)}
BatchSize == IF Cardinality(DueRows) < Workers THEN Cardinality(DueRows) ELSE Workers

(* Mutant: the batch is not waited for.                                     *)
ClaimWithoutWaiting ==
    /\ loop = "awake" /\ open = {}
    /\ DueRows # {}
    /\ \E batch \in kSubset(BatchSize, DueRows) : Claimed(batch)
    /\ UNCHANGED <<open, dispatch, next, age, breaker, faults, sends, delivered,
                   doubt, letters>>

(* Run is at its poll, and has the write connection for it.                 *)
Polling == loop = "awake" /\ flight = {} /\ open = {}

(* DrainOnce with something to do.  Run comes back to the poll after it.    *)
Claim ==
    /\ Polling
    /\ DueRows # {}
    /\ \E batch \in kSubset(BatchSize, DueRows) : Claimed(batch)
    /\ UNCHANGED <<open, dispatch, next, age, breaker, faults, sends, delivered,
                   doubt, letters>>

(* Mutant: the poll reads from the pool, beside the open transaction.       *)
FindsNothingBeside ==
    /\ loop = "awake" /\ flight = {}
    /\ DueRows = {}
    /\ loop' = "idle"
    /\ UNCHANGED <<row, open, wake, breaker, flight, faults, history, letters>>

FindsNothing ==
    /\ Polling
    /\ DueRows = {}
    /\ loop' = "idle"
    /\ UNCHANGED <<row, open, wake, breaker, flight, faults, history, letters>>

(* Logged, and treated as a poll that found nothing.                        *)
PollFails ==
    /\ Polling
    /\ faults < MaxFaults
    /\ faults' = faults + 1
    /\ loop' = "failed"
    /\ UNCHANGED <<row, open, wake, breaker, flight, history, letters>>

(* Run takes the token.                                                     *)
WakeUp ==
    /\ loop # "awake"
    /\ wake
    /\ loop' = "awake" /\ wake' = FALSE
    /\ UNCHANGED <<row, open, breaker, flight, faults, history, letters>>

(* Mutant: the sleep ends by a wake only.                                   *)
SleepsOn == loop

(* Of the loop, when the sleep of a second is over.                         *)
SleepIsOver == "awake"

-----------------------------------------------------------------------------
(* deliver, in the goroutine f.                                             *)

Proceeds(f, stage) ==
    flight' = (flight \ {f}) \cup {[f EXCEPT !.stage = stage]}

Deliver(f) ==
    /\ f.stage = "claimed"
    /\ LET ch == ChannelOf[f.page] IN
        \/ /\ ch \notin Channel
           /\ Proceeds(f, "hopeless")
           /\ UNCHANGED sends
        \/ /\ ch \in Channel /\ ~Allow(ch)
           /\ Proceeds(f, "retry")
           /\ UNCHANGED sends
        \/ /\ ch \in Channel /\ Allow(ch)
           /\ Proceeds(f, "sending")
           /\ sends' = [sends EXCEPT ![f.page] = @ + 1]
    /\ UNCHANGED <<row, open, dispatch, breaker, faults, delivered, doubt, letters>>

SendSucceeds(f) ==
    /\ f.stage = "sending"
    /\ delivered' = [delivered EXCEPT ![f.page] = @ + 1]
    /\ Succeed(ChannelOf[f.page])
    /\ Proceeds(f, "sent")
    /\ UNCHANGED <<row, open, dispatch, faults, sends, doubt, letters>>

(* A retryable error: a refusal, or a timeout after the page has arrived.   *)
SendFails(f) ==
    /\ f.stage = "sending"
    /\ Fail(ChannelOf[f.page])
    /\ Proceeds(f, "retry")
    /\ \/ UNCHANGED <<delivered, doubt>>
       \/ /\ delivered' = [delivered EXCEPT ![f.page] = @ + 1]
          /\ doubt' = [doubt EXCEPT ![f.page] = @ + 1]
    /\ UNCHANGED <<row, open, dispatch, faults, sends, letters>>

(* An error no retry can mend.  The breaker counts it all the same.         *)
SendRefused(f) ==
    /\ f.stage = "sending"
    /\ Fail(ChannelOf[f.page])
    /\ Proceeds(f, "hopeless")
    /\ UNCHANGED <<row, open, dispatch, faults, history, letters>>

-----------------------------------------------------------------------------
(* The outcome is written, and the goroutine returns.                       *)

Finished(f, s) ==
    /\ open = {}
    /\ flight' = flight \ {f}
    /\ state' = [state EXCEPT ![f.page] = s]
    /\ UNCHANGED <<attempts, age, open, dispatch, breaker, faults, history>>

MarkSent(f) ==
    /\ f.stage = "sent"
    /\ Finished(f, "sent")
    /\ UNCHANGED <<next, letters>>

(* Mutant: one attempt too many.                                            *)
ExhaustedLate(f) == f.attempt > MaxAttempts

Exhausted(f) == f.attempt >= MaxAttempts

(* Backoff with full jitter: anything up to the step of the attempt.        *)
Backoff(n) == 0..BackoffSteps[IF n > MaxAttempts THEN MaxAttempts ELSE n]

MarkFailed(f) ==
    /\ f.stage = "retry" /\ ~Exhausted(f)
    /\ \E wait \in Backoff(f.attempt) : next' = [next EXCEPT ![f.page] = wait]
    /\ Finished(f, "failed")
    /\ UNCHANGED letters

(* Mutant: the event is written whether or not the row could be.            *)
MarkDeadTwice(f) ==
    /\ f.stage = "hopeless" \/ (f.stage = "retry" /\ Exhausted(f))
    /\ letters' = [letters EXCEPT ![f.page] = @ + 1]
    /\ \/ /\ Finished(f, "dead")
          /\ next' = [next EXCEPT ![f.page] = 0]
       \/ /\ faults < MaxFaults
          /\ faults' = faults + 1
          /\ flight' = flight \ {f}
          /\ UNCHANGED <<row, open, dispatch, breaker, history>>

(* The row and the event of OnDeadLetter, in one transaction.               *)
MarkDead(f) ==
    /\ f.stage = "hopeless" \/ (f.stage = "retry" /\ Exhausted(f))
    /\ Finished(f, "dead")
    /\ next' = [next EXCEPT ![f.page] = 0]
    /\ letters' = [letters EXCEPT ![f.page] = @ + 1]

(* The transaction fails: logged, and the row stays in sending.             *)
MarkFails(f) ==
    /\ f.stage \in {"sent", "retry", "hopeless"}
    /\ faults < MaxFaults
    /\ faults' = faults + 1
    /\ flight' = flight \ {f}
    /\ doubt' = [doubt EXCEPT ![f.page] = IF f.stage = "sent" THEN @ + 1 ELSE @]
    /\ UNCHANGED <<row, open, dispatch, breaker, sends, delivered, letters>>

(* Whether a send cut off in the middle has arrived is anyone's guess.      *)
Crash ==
    /\ faults < MaxFaults
    /\ faults' = faults + 1
    /\ flight' = {} /\ open' = {}
    /\ loop' = "awake" /\ wake' = FALSE
    /\ BreakerRestart
    /\ \E arrived \in SUBSET {f \in flight : f.stage = "sending"} :
        LET lost == arrived \cup {f \in flight : f.stage = "sent"}
            N(p, S) == Cardinality({f \in S : f.page = p})
        IN  /\ delivered' = [p \in Page |-> delivered[p] + N(p, arrived)]
            /\ doubt' = [p \in Page |-> doubt[p] + N(p, lost)]
    /\ UNCHANGED <<row, sends, letters>>

Tick ==
    /\ open = {}
    /\ BreakerElapse
    /\ loop' = SleepIsOver
    /\ next' = [p \in Page |-> Down(next[p])]
    /\ age' = [p \in Page |->
                IF state[p] # "none" /\ age[p] < Lease THEN age[p] + 1 ELSE age[p]]
    /\ UNCHANGED <<state, attempts, open, wake, flight, faults, sends, delivered, doubt, letters>>

-----------------------------------------------------------------------------
Outcome(f) == MarkSent(f) \/ MarkFailed(f) \/ MarkDead(f)
Answer(f) == SendSucceeds(f) \/ SendFails(f) \/ SendRefused(f)

Work ==
    \/ \E p \in Page : Enqueue(p)
    \/ Commit \/ Rollback
    \/ Claim \/ FindsNothing \/ PollFails
    \/ WakeUp
    \/ \E f \in flight : Deliver(f) \/ Answer(f) \/ Outcome(f) \/ MarkFails(f)
    \/ Crash

Next == Work \/ Tick

Spec == Init /\ [][Next]_obVars

(* A send over an HTTP channel ends after ten seconds (http.go).  The       *)
(* conversation with a mail server has no deadline: Send races it against a *)
(* context that only a shutdown cancels, and only dialling is timed.        *)
Hangs == \E f \in flight : f.stage = "sending" /\ ChannelOf[f.page] \notin Timed

(* Fairness: time passes, a transaction ends, the dispatcher polls when it  *)
(* is awake, and every goroutine goes on, if its channel lets it.           *)
Fairness ==
    /\ WF_obVars(Tick)
    /\ WF_obVars(Commit)
    /\ WF_obVars(Claim)
    /\ WF_obVars(\E f \in flight :
            Deliver(f) \/ Outcome(f) \/ (ChannelOf[f.page] \in Timed /\ Answer(f)))

FairSpec == Spec /\ Fairness

-----------------------------------------------------------------------------
(* At least once, and no oftener than it must be: a page reaches somebody a *)
(* second time only after an attempt whose outcome nobody could know,       *)
(* however claims, leases, slow sends and late writes interleave.           *)
(* The retry limit holds across crashes and lost outcomes: each of those    *)
(* costs at most one further attempt.                                       *)
DuplicatesAreExplained ==
    \A p \in Page :
        /\ delivered[p] <= 1 + doubt[p]
        /\ sends[p] <= attempts[p] /\ attempts[p] <= MaxAttempts + faults

(* The table tells the truth: what it calls sent has arrived, and a page is *)
(* dead exactly if the incident's timeline says so, once.                   *)
OutboxIsHonest ==
    \A p \in Page :
        /\ state[p] = "sent" => delivered[p] > 0
        /\ letters[p] = IF state[p] = "dead" THEN 1 ELSE 0

(* A settled page stays settled: no late worker overwrites it, and nobody   *)
(* sends it again.  The Mark functions check no state themselves.           *)
SettledIsFinal ==
    [][\A p \in Page :
        state[p] \in {"sent", "dead"}
            => /\ state'[p] = state[p]
               /\ delivered'[p] = delivered[p] /\ sends'[p] = sends[p]]_obVars

(* Every page is delivered or declared dead, past crashes and lost writes,  *)
(* unless a mail server holds a send for ever: that is the only thing that  *)
(* can, and a restart ends it.                                              *)
EveryPageSettles ==
    []<>~Hangs =>
        \A p \in Page : state[p] = "pending" ~> state[p] \in {"sent", "dead"}

(* A wake is never lost, though it is given before the page is committed:   *)
(* the poll it causes queues behind that transaction.  So while Run sleeps  *)
(* with nothing to wake it, no page of a first rung waits for its first     *)
(* attempt, unless the poll failed.                                         *)
WakeReachesPage ==
    (loop = "idle" /\ ~wake) => \A p \in FirstRung : state[p] # "pending"

-----------------------------------------------------------------------------
(* What comments and documents say and the code does not do.                *)

(* breaker.go: "Once the cooldown elapses a single attempt is admitted".    *)
HalfOpen(ch) == failures[ch] = Threshold /\ openFor[ch] = 0

SingleProbe ==
    \A ch \in Channel :
        HalfOpen(ch) => Cardinality({f \in flight :
            f.stage = "sending" /\ ChannelOf[f.page] = ch}) <= 1

(* http.go: "A provider that hangs must not hold a worker while an incident *)
(* goes unpaged".  A mail server that accepts the connection and is silent  *)
(* holds the whole batch, and DrainOnce waits for it before it claims       *)
(* another.                                                                 *)
HangHoldsNobodyElse ==
    \A p \in Page :
        ChannelOf[p] \in Timed =>
            (state[p] = "pending" ~> state[p] \in {"sent", "dead"})

(* core.go: "NotifDead means every retry was exhausted".  An open breaker   *)
(* uses the attempts up.                                                    *)
DeadWasTried ==
    \A p \in Page :
        (state[p] = "dead" /\ ChannelOf[p] \in Channel) => sends[p] > 0
=============================================================================
