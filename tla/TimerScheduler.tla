--------------------------- MODULE TimerScheduler ---------------------------
(***************************************************************************)
(* The durable scheduler of internal/timer over the timers table: the loop *)
(* that reads a batch of pending rows, executes the first one that is due  *)
(* and not backing off, or sleeps until the next; and the callers that     *)
(* commit a change to the table first and wake the loop afterwards.        *)
(*                                                                         *)
(* Instants are kept relative to now, in ticks, so that time is unbounded  *)
(* and the state space finite.  A second has Second ticks; the store keeps *)
(* instants in whole seconds, rounded down, the loop sleeps in ticks.      *)
(* A step of the loop takes no time; any time passes between two, unless   *)
(* Prompt says that the loop is faster than the clock's unit.              *)
(***************************************************************************)
EXTENDS Integers, FiniteSets

CONSTANTS
    TimerId,         \* row ids, in the order they are allotted: 1..n
    Delay,           \* how far ahead callers schedule, in ticks
    Second,          \* ticks in a second
    BatchSize,       \* rows the loop looks at
    MaxIdleWait,     \* the longest sleep, in ticks
    RetryBackoff,    \* the first back-off of a failed timer, in ticks
    MaxRetryBackoff, \* ... and the longest
    Poison,          \* timers whose handler fails every time
    Prompt,          \* the loop takes less than a tick between two sleeps
    MaxFaults        \* bound: crashes and failed reads of the table

ASSUME SchedulerAssumption ==
    /\ TimerId \subseteq Nat
    /\ Delay \subseteq Nat
    /\ Poison \subseteq TimerId
    /\ Second \in Nat \ {0} /\ BatchSize \in Nat \ {0}
    /\ MaxIdleWait \in Nat \ {0} /\ RetryBackoff \in Nat \ {0}
    /\ MaxRetryBackoff \in Nat \ {0}
    /\ Prompt \in BOOLEAN /\ MaxFaults \in Nat

VARIABLES
    phase,      \* ticks since the last whole second
    row,        \* the row of each timer
    due,        \* fire_at of a row that exists, relative to now
    asked,      \* history: ticks until the instant the caller asked for
    owed,       \* how many callers have committed and have yet to call Wake
    silent,     \* history: a caller that never will has committed since the last read
    wake,       \* the wake channel, of capacity one
    pc,         \* what the loop does next
    batch,      \* the rows it has read
    picked,     \* the row it is about to execute
    nap,        \* ticks until its sleep ends
    retryIn,    \* retryAfter relative to now, 0 when elapsed or absent
    retryDelay, \* the delay last used, 0 when absent
    faults

table == <<row, due, asked>>
callers == <<owed, silent>>
loop == <<pc, batch, picked, nap>>
backoff == <<retryIn, retryDelay>>
tsVars == <<phase, table, callers, wake, loop, backoff, faults>>

Stage == {"none", "pending", "done", "cancelled"}
Nobody == -1

TypeOK ==
    /\ phase \in 0..(Second - 1)
    /\ row \in [TimerId -> Stage]
    /\ due \in [TimerId -> Int] /\ asked \in [TimerId -> Nat]
    /\ owed \in Nat /\ silent \in BOOLEAN
    /\ wake \in BOOLEAN
    /\ pc \in {"read", "scan", "execute", "sleep", "pause"}
    /\ batch \subseteq TimerId
    /\ picked \in TimerId \cup {Nobody}
    /\ nap \in Nat
    /\ retryIn \in [TimerId -> Nat] /\ retryDelay \in [TimerId -> Nat]
    /\ faults \in 0..MaxFaults

Init ==
    /\ phase = 0
    /\ row = [t \in TimerId |-> "none"]
    /\ due = [t \in TimerId |-> 0]
    /\ asked = [t \in TimerId |-> 0]
    /\ owed = 0 /\ silent = FALSE
    /\ wake = FALSE
    /\ pc = "read" /\ batch = {} /\ picked = Nobody /\ nap = 0
    /\ retryIn = [t \in TimerId |-> 0]
    /\ retryDelay = [t \in TimerId |-> 0]
    /\ faults = 0

AtLeast(a, b) == IF a < b THEN b ELSE a
AtMost(a, b) == IF a > b THEN b ELSE a
Least(S) == CHOOSE x \in S : \A y \in S : x <= y

-----------------------------------------------------------------------------
(* The timers table.                                                        *)

PendingTimers == {t \in TimerId : row[t] = "pending"}

(* Mutant: rows come back in the order of their ids.                        *)
BeforeById(t, u) == t < u

(* ORDER BY fire_at, id.                                                    *)
Before(t, u) == due[t] < due[u] \/ (due[t] = due[u] /\ t < u)

NextPendingTimers ==
    {t \in PendingTimers :
        Cardinality({u \in PendingTimers : Before(u, t)}) < BatchSize}

(* Ids are allotted in order.                                               *)
NewId(t) == row[t] = "none" /\ \A u \in TimerId : u < t => row[u] # "none"

(* toUnix keeps whole seconds: an instant d ticks ahead is stored as the    *)
(* start of its second.                                                     *)
Stored(d) == d - ((phase + d) % Second)

(* InsertTimer.                                                             *)
Inserted(t, d) ==
    /\ row' = [row EXCEPT ![t] = "pending"]
    /\ due' = [due EXCEPT ![t] = Stored(d)]
    /\ asked' = [asked EXCEPT ![t] = d]

-----------------------------------------------------------------------------
(* Callers: ingest, acknowledgement, resolution.  The commit and the Wake   *)
(* after it are two steps.                                                  *)

Schedule(t, d) ==
    /\ NewId(t)
    /\ Inserted(t, d)
    /\ owed' = owed + 1
    /\ UNCHANGED <<phase, silent, wake, loop, backoff, faults>>

Cancel(t) ==
    /\ row[t] = "pending"
    /\ row' = [row EXCEPT ![t] = "cancelled"]
    /\ owed' = owed + 1
    /\ UNCHANGED <<phase, due, asked, silent, wake, loop, backoff, faults>>

(* Mutant: the wake channel has no buffer.                                  *)
WakeUnbuffered ==
    /\ owed > 0
    /\ owed' = owed - 1
    /\ wake' = (wake \/ pc = "sleep")
    /\ UNCHANGED <<phase, table, silent, loop, backoff, faults>>

(* Wake never blocks; one token covers any number of changes.               *)
Wake ==
    /\ owed > 0
    /\ owed' = owed - 1
    /\ wake' = TRUE
    /\ UNCHANGED <<phase, table, silent, loop, backoff, faults>>

(* Ingest returns early when a later chunk fails, and wakes nobody for the  *)
(* chunks that have committed.                                              *)
ForgetWake ==
    /\ owed > 0
    /\ owed' = owed - 1
    /\ silent' = TRUE
    /\ UNCHANGED <<phase, table, wake, loop, backoff, faults>>

-----------------------------------------------------------------------------
(* The loop: step and Run.                                                  *)

Read ==
    /\ pc = "read"
    /\ batch' = NextPendingTimers
    /\ silent' = FALSE
    /\ pc' = "scan"
    /\ UNCHANGED <<phase, table, owed, wake, picked, nap, backoff, faults>>

(* The database failed: pause, then read again.                             *)
ReadFails ==
    /\ pc = "read"
    /\ faults < MaxFaults
    /\ faults' = faults + 1
    /\ pc' = "pause"
    /\ nap' = RetryBackoff
    /\ UNCHANGED <<phase, table, callers, wake, batch, picked, backoff>>

Deferred(t) == retryIn[t] > 0

(* Mutant: a deferred timer ends the scan, as one that is not due does.     *)
FirstOfBatch == {t \in batch : \A u \in batch \ {t} : Before(t, u)}

(* The first row of the batch that is not backing off.                      *)
Candidate ==
    LET ready == {t \in batch : ~Deferred(t)} IN
    {t \in ready : \A u \in ready \ {t} : Before(t, u)}

(* Mutant: rows that are backing off count with the instant they were due.  *)
IdleWaitOfBatch == Least({MaxIdleWait} \cup {due[t] : t \in batch})

(* How long to sleep when nothing can run: until the candidate is due or a  *)
(* back-off passed over on the way to it has elapsed.                       *)
IdleWait ==
    Least({MaxIdleWait}
          \cup {due[t] : t \in Candidate}
          \cup {retryIn[u] : u \in {v \in batch :
                    Deferred(v) /\ \A t \in Candidate : Before(v, t)}})

Scan ==
    /\ pc = "scan"
    /\ \/ \E t \in Candidate :
            /\ due[t] <= 0
            /\ picked' = t
            /\ pc' = "execute"
            /\ UNCHANGED <<batch, nap>>
       \/ /\ \A t \in Candidate : due[t] > 0
          /\ pc' = "sleep"
          /\ nap' = IdleWait
          /\ batch' = {}
          /\ UNCHANGED picked
    /\ UNCHANGED <<phase, table, callers, wake, backoff, faults>>

ClearDefer(t) ==
    /\ retryIn' = [retryIn EXCEPT ![t] = 0]
    /\ retryDelay' = [retryDelay EXCEPT ![t] = 0]

(* defer_ doubles the delay, up to its cap.                                 *)
Defer(t) ==
    LET delay == IF retryDelay[t] = 0
                 THEN RetryBackoff
                 ELSE AtMost(2 * retryDelay[t], MaxRetryBackoff)
    IN  /\ retryDelay' = [retryDelay EXCEPT ![t] = delay]
        /\ retryIn' = [retryIn EXCEPT ![t] = delay]

Return ==
    /\ pc' = "read"
    /\ batch' = {} /\ picked' = Nobody
    /\ UNCHANGED <<phase, callers, wake, nap, faults>>

(* Mutant: the row is not read again inside the transaction.                *)
ExecuteUnchecked(t) ==
    /\ pc = "execute" /\ picked = t
    /\ t \notin Poison
    /\ row' = [row EXCEPT ![t] = "done"]
    /\ UNCHANGED <<due, asked>>
    /\ ClearDefer(t)
    /\ Return

(* execute, and the transaction commits: the handler's effect, which may    *)
(* schedule another timer, and the completion.                              *)
Execute(t) ==
    /\ pc = "execute" /\ picked = t
    /\ row[t] = "pending"
    /\ t \notin Poison
    /\ \/ /\ row' = [row EXCEPT ![t] = "done"]
          /\ UNCHANGED <<due, asked>>
       \/ \E u \in TimerId, d \in Delay :
            /\ NewId(u)
            /\ row' = [row EXCEPT ![t] = "done", ![u] = "pending"]
            /\ due' = [due EXCEPT ![u] = Stored(d)]
            /\ asked' = [asked EXCEPT ![u] = d]
    /\ ClearDefer(t)
    /\ Return

(* The row was cancelled since it was read.                                 *)
NotPending(t) ==
    /\ pc = "execute" /\ picked = t
    /\ row[t] # "pending"
    /\ ClearDefer(t)
    /\ Return
    /\ UNCHANGED table

(* The handler failed, has cancelled its own timer, or does not exist; or   *)
(* the commit failed.                                                       *)
ExecuteFails(t) ==
    /\ pc = "execute" /\ picked = t
    /\ row[t] = "pending"
    /\ Defer(t)
    /\ Return
    /\ UNCHANGED table

Asleep == pc \in {"sleep", "pause"}

(* The sleep ends by a wake or by its timer.                                *)
Woken ==
    /\ Asleep
    /\ wake
    /\ wake' = FALSE
    /\ pc' = "read"
    /\ nap' = 0
    /\ UNCHANGED <<phase, table, callers, batch, picked, backoff, faults>>

SleepEnds ==
    /\ Asleep
    /\ nap = 0
    /\ pc' = "read"
    /\ UNCHANGED <<phase, table, callers, wake, batch, picked, nap, backoff,
                   faults>>

(* A crash, or a stop, and the start after it: the table survives.          *)
Crash ==
    /\ faults < MaxFaults
    /\ faults' = faults + 1
    /\ owed' = 0 /\ silent' = FALSE
    /\ wake' = FALSE
    /\ pc' = "read" /\ batch' = {} /\ picked' = Nobody /\ nap' = 0
    /\ retryIn' = [t \in TimerId |-> 0]
    /\ retryDelay' = [t \in TimerId |-> 0]
    /\ UNCHANGED <<phase, table>>

(* A new row is stored no earlier than this.                                *)
Edge == 1 - Second

(* A tick later.  Rows older than any new one keep their order only, so     *)
(* that they are finitely many however long they are overdue.               *)
Sooner ==
    LET live == PendingTimers \cup batch
        later == [t \in TimerId |-> due[t] - 1]
    IN  [t \in TimerId |->
            IF t \notin live THEN 0
            ELSE IF later[t] >= Edge THEN later[t]
            ELSE Edge - Cardinality({later[u] : u \in
                     {v \in live : later[t] <= later[v] /\ later[v] < Edge}})]

Tick ==
    /\ Prompt => Asleep
    /\ phase' = (phase + 1) % Second
    /\ due' = Sooner
    /\ asked' = [t \in TimerId |-> AtLeast(asked[t] - 1, 0)]
    /\ retryIn' = [t \in TimerId |-> AtLeast(retryIn[t] - 1, 0)]
    /\ nap' = AtLeast(nap - 1, 0)
    /\ UNCHANGED <<row, callers, wake, pc, batch, picked, retryDelay, faults>>

-----------------------------------------------------------------------------
Next ==
    \/ \E t \in TimerId, d \in Delay : Schedule(t, d)
    \/ \E t \in TimerId : Cancel(t)
    \/ Wake \/ ForgetWake
    \/ Read \/ ReadFails \/ Scan
    \/ \E t \in TimerId : Execute(t) \/ NotPending(t) \/ ExecuteFails(t)
    \/ Woken \/ SleepEnds
    \/ Crash
    \/ Tick

Spec == Init /\ [][Next]_tsVars

(* Fairness: time passes, the loop keeps going, and a handler that can      *)
(* succeed does not fail every time it is tried.                            *)
Fairness ==
    /\ WF_tsVars(Tick)
    /\ WF_tsVars(Read)
    /\ WF_tsVars(Scan) /\ WF_tsVars(Woken) /\ WF_tsVars(SleepEnds)
    /\ WF_tsVars(\E t \in TimerId : NotPending(t) \/ ExecuteFails(t))
    /\ \A t \in TimerId \ Poison : SF_tsVars(Execute(t))

FairSpec == Spec /\ Fairness

-----------------------------------------------------------------------------
(* When a pending timer can run at the earliest, relative to now.           *)
Runnable(t) == AtLeast(AtLeast(due[t], retryIn[t]), 0)

(* Nobody has told the loop of a change it has not seen, nor is about to.   *)
Settled == pc = "sleep" /\ ~wake /\ owed = 0 /\ ~silent

(* No lost wake-up: once every caller has woken the loop for what it wrote, *)
(* the loop does not sleep past the moment a row of its window can run,     *)
(* however commits, wakes, reads, back-offs and sleeps interleave.          *)
NoOversleep == Settled => \A t \in NextPendingTimers : nap <= Runnable(t)

(* Oldest first, also through a backlog after a restart: a timer runs ahead *)
(* of an older pending one only if that one has failed before or was written*)
(* after the batch was read.                                                *)
OldestFirst ==
    [][\A t, u \in TimerId :
        (row[t] = "pending" /\ row'[t] = "done"
            /\ row[u] = "pending" /\ due[u] < due[t])
                => u \notin batch \/ retryDelay[u] > 0]_tsVars

-----------------------------------------------------------------------------
(* What the comments and the tests say and the code does not do.            *)

(* timer.go: "A timer backing off after a failure must not block the ones   *)
(* behind it".  It does when a whole window of them is backing off.         *)
BackoffBlocksNobody ==
    Settled => \A t \in PendingTimers : nap <= Runnable(t)

(* timer.go, of Wake: "Call it after committing a transaction that scheduled*)
(* or cancelled a timer".  An ingest whose later chunk fails does not.      *)
EveryCommitWakes ==
    (pc = "sleep" /\ ~wake /\ owed = 0)
        => \A t \in NextPendingTimers : nap <= Runnable(t)

-----------------------------------------------------------------------------
(* internal/timer implements DurableTimers, to within a second.             *)
Durable == INSTANCE DurableTimers WITH
    TimerId <- TimerId, Delay <- Delay, EarlyBy <- Second - 1,
    stage <- row, left <- asked

OnceUnlessCancelled == Durable!DTSpec

(* Liveness: every timer whose handler can succeed runs or is cancelled,    *)
(* past crashes, failed reads, forgotten wakes, and failing neighbours.     *)
EveryTimerSettles ==
    \A t \in TimerId \ Poison : row[t] = "pending" ~> row[t] # "pending"
=============================================================================
