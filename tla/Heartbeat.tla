----------------------------- MODULE Heartbeat -----------------------------
(***************************************************************************)
(* The dead-man's switches of internal/heartbeat: jobs ping over HTTP, and *)
(* a sweeper reads the overdue switches, marks each missing in a           *)
(* transaction of its own and then hands an alert for it to ingest, in     *)
(* another.  Pings come at any moment between those steps.                 *)
(*                                                                         *)
(* Instants are kept relative to now, in seconds, as the table keeps them. *)
(* A sweep takes less than a second.                                       *)
(***************************************************************************)
EXTENDS Integers

CONSTANTS
    Switch,     \* the heartbeats of the configuration
    Window,     \* expected interval plus grace period, in seconds
    Interval,   \* seconds between two sweeps
    MaxFaults   \* bound: crashes and failed transactions

ASSUME HeartbeatAssumption ==
    /\ Window \in Nat \ {0} /\ Interval \in Nat \ {0} /\ MaxFaults \in Nat

VARIABLES
    state,      \* of each switch, "none" until Sync has registered it
    since,      \* seconds since last_ping_at, told apart up to Late
    overdue,    \* the switches the sweep has read and not yet dealt with
    raising,    \* those it has marked and not yet raised the alert of
    ticker,     \* seconds until the sweeper's ticker ticks
    faults,
    alerted     \* history: an alert was raised since the last ping, for the
                \* silence after it ("yes") or the one before ("early")

hbVars == <<state, since, overdue, raising, ticker, faults, alerted>>

(* Nothing tells later instants apart.                                      *)
Late == Window + Interval * (1 + MaxFaults) + 1

HeartbeatState == {"none", "never_seen", "healthy", "missing"}

TypeOK ==
    /\ state \in [Switch -> HeartbeatState]
    /\ since \in [Switch -> 0..Late]
    /\ overdue \subseteq Switch /\ raising \subseteq Switch
    /\ \A g, h \in raising : g = h
    /\ ticker \in 0..Interval
    /\ faults \in 0..MaxFaults
    /\ alerted \in [Switch -> {"no", "early", "yes"}]

Init ==
    /\ state = [h \in Switch |-> "none"]
    /\ since = [h \in Switch |-> 0]
    /\ overdue = {} /\ raising = {}
    /\ ticker = Interval
    /\ faults = 0
    /\ alerted = [h \in Switch |-> "no"]

-----------------------------------------------------------------------------
(* Sync, at a start whose configuration declares h for the first time.      *)
Sync(h) ==
    /\ state[h] = "none"
    /\ state' = [state EXCEPT ![h] = "never_seen"]
    /\ UNCHANGED <<since, overdue, raising, ticker, faults, alerted>>

(* RecordPing.                                                              *)
RecordPing(h) ==
    /\ state[h] # "none"
    /\ state' = [state EXCEPT ![h] = "healthy"]
    /\ since' = [since EXCEPT ![h] = 0]
    /\ alerted' = [alerted EXCEPT ![h] = "no"]
    /\ UNCHANGED <<overdue, raising, ticker, faults>>

Sweeping == overdue # {} \/ raising # {}

(* Mutant: the grace period counts twice.                                   *)
OverdueLate(h) == state[h] = "healthy" /\ since[h] > Window + Interval

(* Mutant: overdue for the second in which the window ends.                 *)
OverdueForASecond(h) == state[h] = "healthy" /\ since[h] = Window + 1

Overdue(h) == state[h] = "healthy" /\ since[h] > Window

(* The ticker ticks, and SweepOnce reads the table.                         *)
SweepStarts ==
    /\ ~Sweeping
    /\ ticker = 0
    /\ ticker' = Interval
    /\ overdue' = {h \in Switch : Overdue(h)}
    /\ UNCHANGED <<state, since, raising, faults, alerted>>

(* Mutant: the alert goes first, the state later.                           *)
MarkMissingLater(h) ==
    /\ h \in overdue /\ raising = {}
    /\ overdue' = overdue \ {h}
    /\ raising' = IF state[h] = "healthy" THEN {h} ELSE {}
    /\ UNCHANGED <<state, since, ticker, faults, alerted>>

(* MarkHeartbeatMissing looks at the state again, and not at last_ping_at.  *)
MarkMissing(h) ==
    /\ h \in overdue /\ raising = {}
    /\ overdue' = overdue \ {h}
    /\ IF state[h] = "healthy"
       THEN /\ state' = [state EXCEPT ![h] = "missing"]
            /\ raising' = {h}
       ELSE UNCHANGED <<state, raising>>
    /\ UNCHANGED <<since, ticker, faults, alerted>>

(* The alert is ingested.  It tells of the present silence unless the job   *)
(* has pinged since the sweep read the table.                               *)
Raise(h) ==
    /\ h \in raising
    /\ raising' = {}
    /\ alerted' = [alerted EXCEPT ![h] = IF since[h] > Window THEN "yes" ELSE "early"]
    /\ UNCHANGED <<state, since, overdue, ticker, faults>>

(* Either transaction fails: SweepOnce returns, the rest of its list waits  *)
(* for the next sweep, and a switch already marked is not looked at again.  *)
SweepFails ==
    /\ Sweeping
    /\ faults < MaxFaults
    /\ faults' = faults + 1
    /\ overdue' = {} /\ raising' = {}
    /\ UNCHANGED <<state, since, ticker, alerted>>

Crash ==
    /\ faults < MaxFaults
    /\ faults' = faults + 1
    /\ overdue' = {} /\ raising' = {}
    /\ ticker' = Interval
    /\ UNCHANGED <<state, since, alerted>>

Tick ==
    /\ ~Sweeping /\ ticker > 0
    /\ ticker' = ticker - 1
    /\ since' = [h \in Switch |->
                  IF state[h] \in {"healthy", "missing"} /\ since[h] < Late
                  THEN since[h] + 1 ELSE since[h]]
    /\ UNCHANGED <<state, overdue, raising, faults, alerted>>

-----------------------------------------------------------------------------
Next ==
    \/ \E h \in Switch : Sync(h) \/ RecordPing(h) \/ MarkMissing(h) \/ Raise(h)
    \/ SweepStarts \/ SweepFails \/ Crash
    \/ Tick

Spec == Init /\ [][Next]_hbVars

(* Fairness: time passes and the sweeper keeps running.  Nobody need ping.  *)
Fairness ==
    /\ WF_hbVars(Tick)
    /\ WF_hbVars(SweepStarts)
    /\ WF_hbVars(\E h \in Switch : MarkMissing(h) \/ Raise(h))

FairSpec == Spec /\ Fairness

-----------------------------------------------------------------------------
(* A stopped job is noticed one sweep after its window at the latest, and   *)
(* every crash or failed sweep costs one more interval.                     *)
NoticedInTime ==
    \A h \in Switch :
        state[h] = "healthy" => since[h] <= Window + Interval * (1 + faults)

(* "A switch that stays down must produce one incident, not one per sweep": *)
(* nothing is raised for a silence that has been raised already, nor for a  *)
(* switch that never reported.                                              *)
RaisedOnce ==
    \A h \in raising : state[h] # "never_seen" /\ alerted[h] # "yes"

(* A job that has stopped for good is marked missing.                       *)
StoppedJobIsMarked ==
    \A h \in Switch :
        (state[h] = "healthy" /\ since[h] > Window)
            ~> (state[h] = "missing" \/ since[h] = 0)

-----------------------------------------------------------------------------
(* What comments and tests say and the code does not do.                    *)

(* "if a ping does not arrive within its expected interval plus a grace     *)
(* period, Kerberon raises an incident": a missing switch has had its alert.*)
MissingIsRaised ==
    \A h \in Switch :
        state[h] = "missing" => alerted[h] # "no" \/ h \in raising

(* TestHealthyHeartbeatIsNotSwept: a switch within its window is not swept. *)
MissingIsOverdue ==
    [][\A h \in Switch :
        (state[h] = "healthy" /\ state'[h] = "missing") => since[h] > Window]_hbVars
=============================================================================
