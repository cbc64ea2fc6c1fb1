# Kerberon: a verification development

Kerberon receives alerts, groups them into incidents, and pages people along an
escalation policy until somebody takes the incident. It is one Go process over
one SQLite file. These modules model the parts of it that decide whether
somebody is paged, how often, and when it stops; TLC checks them on small
instances, and TLAPS proves the most important results for every instance.

Paths below are relative to the repository's `internal/` unless they name
another directory.

## 1. The system

### Components

| component | state it keeps | operations |
|---|---|---|
| ingest (`ingest/`, `alert/`) | the requests under way | parse a payload of Alertmanager, Grafana or generic form into alerts, or reject all of it; hand them to grouping; answer with counts |
| routing (`route/`) | an atomically swapped list of routes | first match of an alert's labels; the group key and fingerprint of an alert |
| grouping (`group/`) | incidents, alerts | apply an alert: open an incident with a `group_wait` timer, attach to an open one, start or cancel the grace window; the handlers of `group_wait` and `resolve_timeout` |
| escalation (`escalate/`) | the incident's policy snapshot and rung, the outbox rows it enqueues | begin, the handlers of `escalate` and `repeat` (the ack timeout), acknowledge, expire |
| durable timers (`timer/`, `store/timers.go`) | rows of the `timers` table; back-offs, a wake channel and the position of one loop in memory | schedule, cancel, wake; read, select, execute in a transaction, back off, sleep |
| outbox and dispatcher (`notify/`, `store/notifications.go`) | rows of `notifications`; a batch of goroutines, one circuit breaker per channel | enqueue under an idempotency key; claim with a lease, send, record the outcome, retry, give up |
| channels (`notify/channels/`) | none | put a page on the wire; classify an error as permanent or not |
| one-tap acknowledgement (`ack/`, `api/ack.go`) | none (tokens are derived) | mint a link per recipient and rung; answer one |
| dead-man's switches (`heartbeat/`) | rows of `heartbeats` | register, ping, sweep and raise an alert |
| schedules and overrides (`schedule/`, `store/overrides.go`, `escalate/adapters.go`) | overrides | who is on call at an instant; calendars, gaps |
| configuration (`config/`, `cmd/kerberon/main.go`) | the current configuration; router, targets, contacts, policies, each swapped on its own | load, validate, watch, reload |
| maintenance (`maintenance/`, `store/retention.go`) | none | prune, vacuum |
| storage (`store/`) | the SQLite file: one writing connection, a pool of readers | `Tx`, migrations |
| API and pages (`api/`, `web/`) | none | endpoints, read-only views |

### Interactions

*Calls.* ingest calls grouping; grouping calls escalation when `group_wait`
closes, inside the same transaction; heartbeats call grouping with a synthetic
alert; the API calls escalation (acknowledge) and the store (resolve, ping).
*Shared state.* All of them meet in the database. `store.DB.Tx` runs on a pool
of one connection, so transactions are serial, and every guard that matters
is a condition of an `UPDATE` inside one. *Signals.* A transaction that schedules a
timer wakes the scheduler through a channel of capacity one, after the commit;
the dispatcher has the same kind of channel and a poll of a second, and the first rung of an escalation wakes it before its commit. *Callbacks.* The
scheduler runs the handler registered for a timer's kind inside the transaction
that completes the timer.

### What is hard

Everything between two transactions: the scheduler reads a due timer, and an
acknowledgement, a resolution, a re-fire, a reload or a crash comes before it
executes it. Timers, which alone keep an escalation going, are cancelled by kind in
several places. The loop can sleep past a timer nobody told it of. A page is
sent outside any transaction, so its outcome can be lost. The sweep of
heartbeats and the answer to a link decide on what they read a moment ago. A
request is routed with the table of one moment and stored, chunk by chunk, at
later ones. The
hazards are listed one by one in `PROJECT.json`, at the lines where they bite,
with the properties that cover them or the reason why none does yet.

### What makes each component correct

* grouping: one open incident per group; a grace window is open exactly while
  everything in the group has resolved; an incident with a firing alert is not closed by it.
* ingest and routing: an alert joins the incident of its group and no other,
  whatever pod it comes from and however routes are listed; what a sender told 200
  reported as firing is held by an incident that is open, or was closed by a person, or ran out
  of rungs; counts are those of the rows.
* escalation: rungs in order, once each; never without the timer that drives
  it, never with two; silence after an acknowledgement or a closing; expiry only
  after the last rung; the policy an escalation began with.
* timers: nothing due is slept past; oldest first; at most once; every timer
  that can run does.
* outbox: at least once unless a send hangs, and twice only when the outcome of an attempt was
  lost; attempts bounded; what is recorded is true; a settled row stays settled; a first page waits for no poll.
* acknowledgement: the link of the rung that is current is accepted, whatever happens between
  its page and its check; one owner; a closed incident stays closed.
* heartbeats: a silence is noticed by the sweep after its window, and raised once.
* schedules: handoffs fall on the calendar's instants and turns go in order
  across changes of the clock; a calendar agrees with a lookup at every
  instant; what validation finds covered always finds somebody.
* configuration: an edit takes effect everywhere; one resolution reads one
  configuration; what is validated pages everybody it names, and of those who
  stand in by an override the ones it looked at.
* maintenance: what is old and closed goes, and nothing else.

## 2. The plan

1. `EscalationPolicy`, `Paging`, `OnCall`, `PagingRefinement` and their proofs: the core. **Done.**
2. `DurableTimers`, `TimerScheduler`: the promise of a timer and the loop that keeps it. **Done.**
3. `Breaker`, `Outbox`: delivery. **Done.**
4. `Heartbeat`, `AckLink`, `Retention`. **Done.**
5. `WallClock`, `Schedule`: civil time, rotation, restrictions and overrides,
   checked against definitions without an algorithm. **Done.**
6. `Reload`: the watcher, the four swaps of `OnReload`, and an incident between them. **Done.**
7. `Routing` (normalisation, names of routes, group key, fingerprint: what may and what may
   not split an incident) and `Ingest` (concurrent requests over it); the
   dispatcher's loop with its wake channel in `Outbox`. **Done.**
8. Proofs: every safety invariant, action property and refinement that a passing
   run checks. **Done** (section 5); liveness stays with TLC.

Composition: `Paging` composes grouping, escalation, manual resolution and the
transactional half of the scheduler, because they share incidents and timers.
`TimerScheduler` refines what `Paging` leaves open about the loop (time, waking,
back-off), and `Outbox` takes the rows that `Paging` enqueues. `Reload` refines
the lookups that `Paging` takes in one step (route, policy, people, addresses),
and `Schedule` says who a schedule target is. `Ingest` extends `Routing` and refines the
alerts that `Paging` takes one by one: they come in payloads, chunks and
concurrent requests, and their group and identity are computed. `Outbox` extends `Breaker`, and
`Schedule` extends `WallClock`. The abstract specifications are `OnCall` (what an incident promises,
implemented by `Paging`) and `DurableTimers` (what a timer promises, implemented
by `TimerScheduler`).

## 3. The modules and the code

| module | models | how its state corresponds |
|---|---|---|
| `EscalationPolicy` | `escalate/policy.go` | a policy is its number of steps, its repeat and whether it has an ack timeout; `Rungs`, `StepAt`, `Exhausted` are the flat index over steps and passes |
| `Paging` | `group/`, `escalate/`, `store/{incidents,alerts,timers}.go` and the transactional half of `timer/` | a function per column of `incidents`; the newest alert per fingerprint; the pending rows of `timers`; the outbox as a set of idempotency keys; the `notified` events of the timeline; the policy table a reload swaps; the timer the scheduler has read and not yet executed |
| `OnCall` | the promise: the state machine of `core/core.go` | phase, rungs climbed and length of the ladder of an incident |
| `PagingRefinement` | the mapping of `Paging` to `OnCall` | phase is the status, rungs climbed are the `notified` events, the ladder is the snapshot's |
| `DurableTimers` | the promise of a timer in `timer/timer.go` | a timer is asked for, and runs once, within a second of its instant or later, unless it is cancelled |
| `TimerScheduler` | `timer/timer.go`, `store/timers.go`, the callers' commit-then-wake | rows with an instant relative to now; the wake channel; the batch read, the row picked, the sleep and the back-offs of the loop |
| `Routing` | `alert/`, `route/` | no state: a payload to alerts, a configuration to the route table, an alert to its route, group key and fingerprint |
| `Ingest` | `ingest/ingest.go`, `Ingest` and what it calls in `group/group.go`, the rows of `store/{alerts,incidents}.go` | the route table; of each sender its last request, with what is routed, stored and counted; the rows of `alerts` and `incidents`, a pending `resolve_timeout` as `closing` |
| `Breaker` | `notify/breaker.go` | failures in a row and the time left open, per channel |
| `Outbox` | `notify/dispatcher.go`, `store/notifications.go`, `notify/channels/http.go` | the rows of `notifications`, with their age and next attempt; the open transaction of an escalation step; the loop and its wake channel; the goroutines of a batch and what each does next |
| `Heartbeat` | `heartbeat/heartbeat.go`, `store/heartbeats.go` | the state and last ping of each switch; the sweep's list and the switch between its two transactions |
| `AckLink` | `ack/ack.go`, `api/ack.go` | the incident, the tokens minted, and where each opened link is between read, check and write |
| `Retention` | `maintenance/`, `store/retention.go`, the foreign keys of the schema | the closed incidents by age and the alerts that refer to them |
| `WallClock` | `schedule/wallclock.go` | an instant is a number of half hours, a zone has at most one change of its offset; `Date` and `AddDate` are Go's, external |
| `Schedule` | the rest of `schedule/`, `store/overrides.go`, the lookup of `escalate/adapters.go` | the clock, the window a calendar shows, the schedule in force, the rows of `overrides` |
| `Reload` | `config/reload.go`, `config/validate.go`, `route/`, `escalate/adapters.go`, `OnReload` and `OnPageDue` of `cmd/kerberon/main.go` | the file and whether its times are those last seen; where the watcher is; the configuration each of the four holders was built from; an incident between two lookups |
| `...Proofs` | the theorems about the module of that name (`PagingProofs`: and about its refinement) | no state of their own |

One action stands for one transaction, or for one step outside a transaction
that another actor can come before or after. `Paging` has one action per
entry point (`Ingest` with the three branches of `applyAlert`, `Acknowledge`,
`Resolve`, `Reload`), and the scheduler's `Select`, `Execute` (a handler with
the completion of its timer), `SkipNotPending` and `Rollback`. A crash in the middle of a
transaction is `Rollback`: nothing of it survives and the row is pending. The `.cfg` files are the runs; where constants need
values that a `.cfg` cannot write, an `MC...` module has them. `Heartbeat` and
`TimerScheduler` are run as they are.

### Abstractions

* `Paging` has no clock: delays are configured and unrelated to each other, so
  any pending timer may be the next one due. Times are in `TimerScheduler`.
* Who a rung's targets resolve to is left out: a rung pages `Recipient`s, a
  rung that finds nobody is recorded and goes on in the same way.
* A hash (fingerprint, group key, name of a route) is what it is taken over.
  That assumes label names without `=` and no NUL anywhere: `Fingerprint` writes
  a name, `=`, a value and a NUL (`alert/alert.go:52-58`), so that `{"a=b": "c"}` and
  `{"a": "b=c"}`, which a generic payload may hold, are one alert to the code and two here. Labels are
  functions, names and statuses are lowered by a table of the instance.
* In `Ingest` each payload says, beside its labels, what its sender means by
  it. `Parse` does not read that; `SenderIsHeard` and `CountsAreTrue` compare
  the two. What a label set means to a reader of the configuration (`Group`,
  `Named`) is written without the code's operators.
* A transaction is over within the second; in `Outbox` an open one makes the
  dispatcher wait, and elsewhere a transaction is one step.
* Instants are relative to now and saturate where nothing tells them apart any
  more, so that time is not bounded; only `Schedule` has a calendar, and looks
  at a window of it.
* Half hours carry every offset and handoff time of a real zone but those of
  Nepal and the Chatham Islands, and handoffs on the hour or half hour. The code
  looks at one change of an offset at a time, so a zone has one. `InsertOverride`
  and `DeleteOverride` have no caller outside tests yet; they are actions all the same.
* Two edits of the file differ in time or size, so `seen` is false after each. A
  text that does not parse is one that validation rejects.
* Titles, severities, annotations, bodies, events other than those properties speak of, and
  the formats on the wire are left out.
* Variables commented as history are not in the code; they record what a
  property needs of the past, and no guard reads them.

## 4. What is checked

### Runs

| run | asks | instance |
|---|---|---|
| `paging_safety` | do statuses, timers, timeline and outbox stay consistent in every interleaving, and is `OnCall` implemented? | two incidents, two groups, a policy of two steps with an ack timeout and one of a step repeated twice, swapped by reloads |
| `paging_live` | does the grace window follow the alerts, does an escalation end, and does a quiet incident close? | one incident, two alerts |
| `timer_loop` | can the loop sleep past a timer, does it run the oldest first, is `DurableTimers` implemented, and does every timer that can run do so? | two timers, one of which always fails, a clock of two ticks per second, one fault (a crash, a failed read, a wake nobody sent) |
| `outbox_delivery` | are duplicates, attempts, recorded outcomes and dead letters right, does a first page wait for no poll, and is every page delivered or dead in the end, if no send hangs for ever? | three pages, one of a first rung, for a channel with a deadline, one without and one the process does not know, batches of two, one fault |
| `ingest_routes` | is what a sender was told is stored what it meant, in the incident of its group, and do the counts agree? | two senders of two payloads each, two routes that overlap, chunks of two, two upsets (failed chunk, reload, incident closed by a person, incident expired) |
| `heartbeat_sweeps` | is a silence noticed in time, raised once, and marked in the end? | two switches, two faults |
| `acklink_safety` | is the link of the current rung accepted, is there one owner, does a closed incident stay closed? | three links, two users, three rungs |
| `schedule_rota` | do handoffs, turns, restrictions, calendars and pages agree with each other and with the local clock? | five schedules in five zones, before and after the anchor, two overrides, reloads |
| `reload_swaps` | what does one step read of which configuration, and does every edit take effect? | two usable configurations, one rejected, one valid that cannot be built, an incident of two rungs, an override by somebody no schedule lists |

A run checks its module's type invariant where types are at stake; those of
`Heartbeat`, `Schedule` and `Reload` hold on the same instances and are not part of a run.

The runs that expect a violation each state what a comment, a document or a
test says and show that the code does otherwise; they are under *Findings*.

### Bounds, and why they are enough

* Two incidents of `Paging` meet only through a group key: two show every
  conflict over one. A repeat of two and two steps reach each kind of
  boundary: next step, next pass, exhausted. Six timer ids suffice for two open
  groups (a chain timer and a grace window each, one held by the scheduler, one
  being inserted); ids are interchangeable, which `MCView` uses. The proofs
  cover any number.
* `timer_loop` has two timers: one that keeps failing and backing off beside one that
  can run, in either order, with delays of 0 and 3 against sleeps of at most 3, so that
  a timer falls before, at and after the end of a sleep. Its window shows both rows; that
  the four safety properties also hold where rows are hidden from the loop is what the theorems say, for every window
  and number of timers. `TimerForgottenWake.cfg` and `TimerStarved.cfg` have three timers and a smaller window.
* Batches of two with three pages make a second batch wait for the first. Two
  attempts, back-offs of one and two seconds, a lease and a cooldown of one let
  each end before, with and after another.
* `ingest_routes`: a payload of three alerts is two chunks, so one can fail after
  the other; two payloads of each sender are a firing and its repetition or its
  end; the three configurations differ by the order of routes and of `group_by` labels
  and by a route removed; two upsets show each pair of kinds. The same properties hold with three upsets
  (4,795,515 states).
* `MaxFaults` bounds crashes and failed writes; each property either holds
  between faults or says how much a fault costs, so one fault (two for
  heartbeats, where they add up) shows it.
* Three links on three rungs: one earlier, one current, one overtaken between
  its read and its check.
* The clock changes on the Sunday in the middle of a window of five days, or on
  one before the rotation's anchor; each kind of change (an hour on, an hour
  back, half an hour, none) is one zone. Every half hour of three windows is
  tried. Zones that skip midnight are left to the configurations under *Findings*.
* Two usable configurations that differ in policies, people and addresses show
  every mixture of holders; a third would only be another pair of two.

Deadlock is checked wherever the system cannot stop. `AckLink` stops when the incident is closed
and every link has been answered, and `Ingest` when the senders have sent what
`MaxRequests` allows and nothing is left to close; `CHECK_DEADLOCK FALSE` is set in these two, and in no other
run that passes.

### Fairness

* `Paging`: the loop runs the row due soonest that is not backing off, so a
  timer is passed over only while others are in front of it: strong fairness on selecting
  and executing an incident's chain timer, of which there is one at a time and which nothing replaces before it
  is due except an acknowledgement. The grace window is different: every further resolved alert
  cancels it and starts another, due a whole grace later (`group/group.go:305-316`), so
  a sender that repeats "resolved" faster than `resolve_grace` always has a window pending and never one
  that is due, and keeps the incident open for ever. Fairness is therefore assumed of an incident's grace
  window only where resolved alerts stop coming for it, and `QuietIncidentCloses` has that as its hypothesis. A handler's
  transaction may fail, but not for ever. No fairness on people, alerts or reloads.
* `TimerScheduler`: time passes, the loop goes on, and a handler that is not
  in `Poison` does not fail every time. `Prompt` (the loop takes less than a tick between two
  sleeps) is assumed in `timer_loop`: without it time may race past the loop for
  ever, and each look at the table would find another back-off elapsed. The number
  of poisoned timers is below `BatchSize`; `TimerStarved.cfg` shows what happens otherwise.
* `Outbox`: time passes, a transaction ends, the dispatcher goes on polling while it is
  awake, and a send over a channel of `Timed` answers or times out: the HTTP channels have
  a `Client.Timeout` (`notify/channels/http.go`). The dispatcher itself sets no deadline, and `email.go` limits
  the dialling and not the conversation, so nothing is assumed of a send by email; `EveryPageSettles` has the
  hypothesis that none hangs for ever, and `outbox_hang` shows what one that does holds up. Nothing is
  assumed of the wake channel.
* `Heartbeat`: time passes and the sweeper goes on.
* `Retention`: time passes and the nightly pass runs.
* `Reload`: the watcher goes on. None on editors, signals or incidents.

### Mutants

Definitions commented as mutants (`...Unchecked`, `...Forgotten`) are plausible
mistakes in the code: a guard dropped, a cancellation too wide, a write split from
another. Each property of each passing run is broken by one of them, as
`PROJECT.json` lists. Nothing else uses them.

## 5. What is proved

Each `...Proofs` module proves an inductive invariant of its module
(theorem `Invariance`) for every value of the constants, and from it the
properties that the runs check on one instance. The properties are seldom inductive
one by one; what was added to them, and why, is below. A proof has a lemma per action or per
conjunct, and the theorems are at the end of the module. `PROJECT.json` lists them.

The assumptions are the named `ASSUME`s of the modules, and TLC evaluates them on every run: numbers are naturals,
positive where the code divides or waits by them, and what the decoder of a
file or a payload yields has the shape of its Go type. Nine theorems have a hypothesis
of their own, which the text below names.

### `Paging`

`TypeCorrect`, `OneOpenPerGroup`, `ChainIsDriven`, `NobodyIsStranded`,
`RungsFireInOrder`, `GraceFollowsAlerts`, `NoFiringIncidentCloses`, for any
number of incidents, groups, fingerprints, recipients, timers, policies and reloads.

That an escalation has its driver (`NeverStranded`) survives the execution of a timer only if no second
timer drives the same incident (`OneChainTimer`) and if the timer executed
agrees with the incident (`ChainTimersAgree`; the run checks the two as `ChainIsSound`). That rungs fire in order needs
the timer's step to be the next rung, which is `ChainTimersAgree` again. That
expiry is last needs `OnTheLadder` (the rung last fired is one of the
snapshot's), and rows that were never inserted need to be known empty (`Rows`).
`OneIncidentStep` and `InvOfOne` reduce a step to the one incident it changes, and
`GraceMatchesAlerts` is proved on top of that: the chain's steps leave
grace windows alone, and the three steps that open or close one look at the same alerts as the property.

The end of the module proves that `Paging` implements
`OnCall` (`Refinement`: the initial states map to initial states, every step
to a step of one ladder or a stutter), that the snapshot of a begun escalation never
changes (`FrozenSnapshot`), that closed incidents stay as they are
(`FinalStates`), and that nobody is paged after an acknowledgement or a
closing, even by a timer selected before it (`Silence`).

### `TimerScheduler`

`TypeCorrect`, `NoWakeIsLost`, `OrderKept`, and `Refinement` (it implements
`DurableTimers`), for any timers, delays, window, back-offs and faults.

The heart is `NothingMissed`. Whether the loop oversleeps is only asked when
every caller has woken it, but a caller commits first and wakes later, and the wake
may come while the loop is reading. So the invariant speaks of the moments at
which the table cannot have changed unseen (`Told`: no wake buffered, none owed, none forgotten): then
the batch is the window of the table, and the sleep is no longer than any row of it may run.
`OldestFirst` needs that what the loop has picked was the first of its batch that has not failed
(`PickedFirst`, `OnlyFailuresWait`), and the refinement that a row is stored within the
second it was asked for (`StoredTruly`). Counting the rows before one, which is what a window
is, needs the table to be finite (`RowsExist`).

### `Outbox`

`TypeCorrect`, `DuplicatesExplained`, `HonestOutbox`, `NoLostWake`,
`SettledStays`, for any pages, channels, workers, lease, back-offs and faults.

Everything rests on `OneWorker`: a row that is being sent has one goroutine
and that goroutine holds its latest attempt, though its lease may run out meanwhile: a batch is
claimed only when the last one is done. `AttemptsAreSpent` and
`OneSendPerAttempt` then charge every attempt to `MaxAttempts` or to a fault, and
`DeliveriesAreAccounted` every delivery beyond the first to an attempt whose
outcome was lost; a page is `Landed` from the moment its goroutine knows, before its row says so. `NoLostWake` needs `NoSleepOnFirstPage`, which also
speaks of the page that is not committed yet: the wake comes before the commit,
and it is the single connection that keeps the dispatcher from going back to sleep in between.

### `Heartbeat`

`TypeCorrect`, `SilenceIsNoticed`, `SilenceIsRaisedOnce`, for any switches, window, interval and faults.
`SweptInTime` bounds the silence of a healthy switch at each point of a sweep
by the ticker: one that the sweep under way has not read meets its deadline no earlier than the next tick.
`RaisedTruly` lets a ping come between the mark and the alert.

### `AckLink`

`TypeCorrect`, `CurrentLinkAccepted`, `IncidentHasOneOwner`, for any users, requests and rungs.
The link of the current rung is accepted because what a request reads of the incident is no earlier than the
rung its link was sent on (`ReadAfterSent`), whatever rungs fire until the check. Of links of
earlier rungs nothing is claimed: the code accepts them, and its comment would not (section 6). `CurrentLinkAccepted`
has the hypothesis `LastRung <= HardLimit`: the verifier tries no rung past number 256
(`ack/ack.go:85`) and refuses the links of later ones.

### `Reload`

`OneConfiguration` (nobody listed twice in it) and `ValidationPages`, for any files, alerts, policies and people.
The invariant says of a resolution under way that its first targets
have been asked of one configuration, the one in the page's `state`, and that
the people listed are those answers (`Asked`, which `Resolving` states for
each number of targets). `ValidationPages` says that an incident
of one configuration passes over nobody, except somebody of `Cover`, the users of overrides, whom its step does not
reach otherwise: an override may name anybody (`escalate/adapters.go:94-103`), and validation looks at the
participants of layers (`config/validate.go:494-501`). That nobody else is passed over is an invariant of its own
(`OnlyCoverSkipped`). The theorem has the hypothesis `EveryAddressIsGiven`: validation asks for
the key of a contact and not for its value, and `ReloadEmptyAddress.cfg` shows what an empty one does.

### `Ingest`

`TypeCorrect`, `GroupsApart`, `CountsTrue`, `SenderHeard`, for any senders, payloads, configurations,
sizes of chunks and numbers of requests and upsets.

`Typed` follows a request through its payload: what was read is routed or
counted as unrouted, chunks are pieces of what was routed. `Truth` says that the tables are
true, row by row: a fingerprint stands for the alert, an incident counts its rows and their names, no key
has two open incidents; that what a request still holds is routed rightly, even if the table has
been replaced since; and that a request counts its own rows, of which a request to come has none.
`KeyTellsGroup` is the bridge from keys, which the code compares, to groups, which the property is about; it
uses that the sorted list of labels does not depend on their order. A chunk is
followed alert by alert (`AppliedTyped`, `AppliedTrue`).

`Hearing`, on top of both, is what `SenderIsHeard` rests on. The answer 200 comes chunks after the alerts
were stored, and other senders, closings and people may come in between; so the invariant says of
a request at any point that the last word on each alert of the chunks it has stored is what the
tables hold (`HeardUpTo`). Two things keep it: a chunk takes nothing
away of what another sender said (`OthersHeard`), and an incident with nothing
firing is already closing (`QuietCloses`), so that one which closes had nothing to say. An incident may also
expire with its alerts firing, when nobody answered its last rung; the property names that case.

The hypotheses of these theorems, which the instances satisfy, are

* `ReadAsMeant` (all three) and `StatusAsMeant` (`SenderHeard`): `Parse` reads the labels and the
  status that the sender means. What formats do to them is checked on the payloads of `MCIngest`.
* `LabelsListedOnce` (`GroupsApart`, `SenderHeard`): no `group_by` lists a label twice. Validation does not
  look for that, the code's key repeats the label, and an edit that drops the
  repetition gives the group another key and a second open incident.
* `OwnAlerts` (`SenderHeard`): no two senders speak of one alert. If two do, the later
  word counts, and what the earlier one was told no longer holds.

### `Schedule`

`TypeCorrect`, `RotaKept`, `HoursKept`, `CalendarTrue`, `ValidatedCovered`, for any schedules, participants,
overrides, windows and zones. The invariant is `TypeOK`: overrides come and go, but nothing a person is told
depends on the history, so the other four are about what the code computes in
any state of these types. Each is an algorithm against a definition without one:

1. *Wall clocks* (`RotaKept`). `Reached` is the first instant at which a zone's calendar has got to a wall clock.
   The policy's instant is that for every zone (`PolicyIsReached`), and so is what `Resolve` makes
   of `time.Date`, its two corrections and the bisection, in zones that keep their dates (`ResolveIsReached`).
2. *Handoffs and turns* (`RotaKept`). Wall clocks are reached in their order and on their date, so handoffs are
   numbered by dates; the nine days that `NextHandoff` looks at hold the first handoff ahead
   (`NextIs`), and the walk of `PrevHandoff` starts behind and stops at the last one (`WalkStops`, `PrevIs`).
   Neighbours are one or seven dates apart, and so are turns (`TurnsAreInOrder`), from an anchor that is itself a handoff.
3. *Hours* (`HoursKept`). A window of today or yesterday covers an instant if and only if one of any date does
   (`CoversIsAny`), and that is what the local clock shows, unless it shows the time twice.
4. *The calendar* (`CalendarTrue`). Every handoff, edge of a window or override at which an answer changes is listed
   (`HandoffsCollected`, `EdgesListed`), so between two boundaries the answer stays (`AnswerBetween`). For any answers
   that stay between the points of a `Chart`, joined stretches are the longest runs of one person (`SpanIs`,
   `SpanExists`) and the holes are the rest, one at a time (`CoveredIsNoHole`, `UncoveredIsAHole`, `HolesApart`).
   An instant looked up on its own misses just the overrides that begin with it.
5. *Coverage* (`ValidatedCovered`). A chart without holes has an answer everywhere (`NoGapsNoNobody`), and overrides only add answers.

The hypotheses are about zones, and `MCSchedule` has TLC evaluate them:
they hold of the schedules of the run and not of those whose configurations fail.

* `ZonesKeepDates` (the four): a change is of an hour at most, and what it skips, with as much
  before and after, is of one date. `ScheduleMidnight.cfg` and `ScheduleTurns.cfg` show what happens
  where the hour after midnight or the one before it is skipped.
* `ZonesRepeatByDay` (`CalendarTrue`, `ValidatedCovered`): the wall clocks shown twice are of one date. St. John's fell back
  a minute past midnight until 2011: there Sunday begins, and a moment later it is Saturday again. A window that
  opened at midnight is Sunday's, and `RestrictionCovers` asks for those of the local date and of the day before, so for the
  rest of that hour a lookup finds nobody where the calendar shows somebody.

### How induction is done

No installed prover instantiates the library's induction theorems. Where a
proof is by induction over a list, it takes the least counterexample
(`SmallestOf`, from the well-foundedness of the naturals) and refutes it; recursion
in the modules with theorems is by functions, whose equation is then unfolded
(`Applied` of `Ingest`, `Add` of `Reload`). The walks of `Schedule` are functions on all integers whose
argument grows up to a limit; that there is such a function, which the unfolding needs, is proved by naming it:
what a walk reaches, or the least set closed under its steps (`WalkExists`, `CollectExists`).

### Only model-checked

* Liveness: `EscalationEnds`, `QuietIncidentCloses`, `EveryTimerSettles`, `EveryPageSettles`,
  `StoppedJobIsMarked`, `EditTakesEffect`. The prover has no `ENABLED`.
* What `time.Date` and `AddDate` answer: `WallClock` has them as the library's code computes them, for
  a zone with one change, and the proofs start there.
* `Retention`, whose run shows a disagreement.

## 6. Findings

Three runs expect a violation: the code and its own text disagree there. The
lines and quotations are in `PROJECT.json`.

* `retention`: no closed incident is ever pruned.
* `reload_channel`: a channel that a reload adds is never built, and its pages are dead.
* `outbox_hang`: a mail server that accepts a connection and says nothing holds up the pages of every channel
  until the process is restarted.

Further configurations each show, when run by hand, a behaviour worth knowing
that the regular runs do not repeat. Those named `Heartbeat...` and `Timer...` are of
`Heartbeat` and `TimerScheduler`, the others of `MCPaging`, `MCOutbox`,
`MCAckLink`, `MCSchedule`, `MCReload` and `MCIngest`:

* `ScheduleMidnight.cfg`: `NextWeekly` looks at the weekday of `AddDate(0,0,i)`, which keeps the time
  of day. Where that time is skipped on the day of the handoff (midnight of a
  Sunday in Havana), Go answers an hour earlier, on Saturday; no candidate of
  the nine days is a Sunday and the call panics, against
  `schedule/wallclock.go:168-169` ("Unreachable for a valid weekday"). Begun a day
  earlier it passes over that week's handoff.
* `IngestEdit.cfg`: an edit of a route's `volatile_labels` while its alerts fire gives what resolves
  another fingerprint; the incident stays open with nothing firing.
* `IngestTwins.cfg`: two routes of one configured name share incidents, and the policy of the first
  alert pages for both, against `route/route.go:26-27`; `validateRoutes` does not refuse it.
* `PagingEarlyAck.cfg`: an acknowledgement during `group_wait` starts no ack timeout, against
  `escalate/escalate.go:328-330`.
* `PagingDeletedPolicy.cfg`: the snapshot is taken when `group_wait` closes, so a policy deleted
  before that strands the incident, against decision D4 (`docs/DECISIONS.md:91`).
* `HeartbeatLost.cfg`: a fault between marking a switch and raising its alert loses the alert.
* `ScheduleTurns.cfg`: where the hour before midnight is skipped, a daily handoff in it falls on the
  next day, and one participant is passed over.
* `ReloadAtStart.cfg`: an edit between the two reads of `NewWatcher` is never noticed.
* `ReloadEmptyAddress.cfg`: an empty address passes validation, and its owner is not paged, against
  `escalate/escalate.go:181-182`.
* `PagingLateAck.cfg`: an ack timeout after the last rung expires the incident without paging anybody.
* `TimerStarved.cfg`: a window full of failing timers hides the timers behind it.
* `TimerForgottenWake.cfg`: an ingest that fails half way does not wake the loop for what it committed.
* `OutboxProbe.cfg`: a breaker whose cooldown is over admits every worker, not one.
* `OutboxUntried.cfg`: pages behind an open breaker use up their attempts unsent.
* `HeartbeatStale.cfg`: a ping between the sweep's read and its mark is overruled.
* `AckLinkEarlier.cfg`: the link of an earlier rung is accepted, since `VerifyAny` tries every rung up to the
  current one. `ack/ack.go:52-56` says that a token is not "reusable on a later escalation step ... an earlier recipient
  should not be able to acknowledge work that has already moved past them", and `ack/ack_test.go:71-72` that
  "a link from an earlier step must not work once escalation has moved on", which it tests of `Verify` alone;
  `VerifyAny`'s own comment takes the other side. `CurrentLinkIsAccepted` is about the links on which both agree.

Some are a matter of reading:

* `config/validate.go:467-469` calls `reachableUsers` "every user a set of targets could page". The
  user of an override is none of them and need not have an address on the step's channels: the page is
  skipped. `ReloadSwaps.cfg` has such an override, and `ValidatedMeansPaged` without its exception for
  `Cover` fails there.
* The lease of a claimed row counts from the creation of the row, not from its claim
  (`ClaimDueNotifications`, `store/notifications.go:142`; `age` in `Outbox`).
* Links of rungs past number 256 are refused (`ack/ack.go:85`), hence the hypothesis of `CurrentLinkAccepted`.
* `docs/ROADMAP.md:213` has a missed heartbeat noticed within the interval and
  the grace period; the sweep adds its own interval, which `NoticedInTime` states.
* `notify/dispatcher.go:124` and `escalate/escalate.go:433` ask for `Wake` after
  the commit; `cmd/kerberon/main.go:479` calls it before. `WakeReachesPage`
  shows that the single write connection makes up for it, and its mutant that nothing else does.
* `store/migrations/0001_initial.sql:99` has addresses resolved at send time;
  `fireStep` resolves them when it enqueues (`Reload`'s `Address`).
* `config/validate.go:548` says that without `group_by` every alert forms its own
  incident; `GroupKey` would put them all in one. Validation requires the list.
* `web/pages.go:422` has a test page use the delivery path of a page; it calls the channel
  without outbox or breaker.

## 7. What is not modelled

* Migrations: they run once, before anything else does.
* The order of a shutdown: the loops are cancelled before the server has drained; what that cuts
  off is a fault of the models (`Crash`, `ChunkFails`, a rolled back transaction).
* The syntax of payloads and configuration, their timestamps, and validation of text; HTTP, authentication and
  rendering; what channels put on the wire: input and output without a state
  that the properties depend on.
* What a reload leaves as it was: heartbeats, and the schedules that the API and the pages show.
* The bytes of a token and their encoding: a token is what it signs.
* `cmd/kerberon-bench`, the fake clock, the lint test and packaging: not part
  of the running system.
