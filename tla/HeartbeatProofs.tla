-------------------------- MODULE HeartbeatProofs --------------------------
(***************************************************************************)
(* Proofs about Heartbeat for any number of switches and faults, any window*)
(* and any interval between sweeps.                                        *)
(***************************************************************************)
EXTENDS Heartbeat, TLAPS

(* The sweep that is to notice a silence comes before this.                 *)
Deadline == Window + Interval * (1 + faults)

(* A switch that no sweep has read as overdue reaches its deadline after the*)
(* ticker's next tick at the earliest.                                      *)
SweptInTime ==
    \A h \in Switch :
        state[h] = "healthy" =>
            /\ since[h] <= Deadline
            /\ h \notin overdue => since[h] + ticker <= Deadline

(* A job that reports again has nothing raised against it that tells of its *)
(* present silence; one that comes between mark and alert has just pinged.  *)
RaisedTruly ==
    \A h \in Switch :
        /\ state[h] = "healthy" => alerted[h] # "yes"
        /\ h \in raising =>
                /\ state[h] \in {"healthy", "missing"}
                /\ state[h] = "healthy" => since[h] <= Window
                /\ alerted[h] # "yes"

Inv == TypeOK /\ SweptInTime /\ RaisedTruly

-----------------------------------------------------------------------------
(* A fault moves the deadline by an interval.                               *)
LEMMA DeadlineMoves ==
    ASSUME TypeOK
    PROVE  /\ Deadline \in Nat /\ Late \in Nat
           /\ Window <= Deadline /\ Window + Interval <= Deadline
           /\ faults' = faults => Deadline' = Deadline
           /\ faults' = faults + 1 => Deadline' = Deadline + Interval
<1>1. faults \in Nat /\ MaxFaults \in Nat /\ Interval \in Nat /\ Window \in Nat
  BY HeartbeatAssumption DEF TypeOK
<1>2. \A i, n \in Nat : /\ i * (1 + n) \in Nat /\ i <= i * (1 + n)
                        /\ i * (1 + (n + 1)) = i * (1 + n) + i
  OBVIOUS
<1>3. /\ Interval * (1 + faults) \in Nat /\ Interval <= Interval * (1 + faults)
      /\ Interval * (1 + (faults + 1)) = Interval * (1 + faults) + Interval
      /\ Interval * (1 + MaxFaults) \in Nat
  BY <1>1, <1>2
<1> QED
  BY <1>1, <1>3 DEF Deadline, Late

(* The initial state satisfies the invariant.                               *)
LEMMA InitInv == Init => Inv
<1> SUFFICES ASSUME Init PROVE Inv
  OBVIOUS
<1>1. Late \in Nat
  <2>1. \A i, n \in Nat : i * (1 + n) \in Nat
    OBVIOUS
  <2> QED
    BY <2>1, HeartbeatAssumption DEF Late
<1>2. TypeOK
  BY <1>1, HeartbeatAssumption DEF Init, TypeOK, HeartbeatState
<1>3. SweptInTime /\ RaisedTruly
  BY DEF Init, SweptInTime, RaisedTruly
<1> QED
  BY <1>2, <1>3 DEF Inv

(* A switch is registered: it has not reported yet, and nobody raises it.   *)
LEMMA SyncInv ==
    ASSUME Inv, NEW h \in Switch, Sync(h)
    PROVE  Inv'
<1>1. /\ state[h] = "none" /\ state' = [state EXCEPT ![h] = "never_seen"]
      /\ UNCHANGED <<since, overdue, raising, ticker, faults, alerted>>
  BY DEF Sync
<1>2. TypeOK'
  BY <1>1 DEF Inv, TypeOK, HeartbeatState
<1>3. Deadline' = Deadline
  BY <1>1, DeadlineMoves DEF Inv
<1>4. \A g \in Switch : state'[g] = IF g = h THEN "never_seen" ELSE state[g]
  BY <1>1 DEF Inv, TypeOK
<1>5. SweptInTime' /\ RaisedTruly'
  BY <1>1, <1>3, <1>4 DEF Inv, SweptInTime, RaisedTruly
<1> QED
  BY <1>2, <1>5 DEF Inv

(* A ping, at whatever moment of a sweep: the silence starts anew.          *)
LEMMA RecordPingInv ==
    ASSUME Inv, NEW h \in Switch, RecordPing(h)
    PROVE  Inv'
<1>1. /\ state' = [state EXCEPT ![h] = "healthy"]
      /\ since' = [since EXCEPT ![h] = 0]
      /\ alerted' = [alerted EXCEPT ![h] = "no"]
      /\ UNCHANGED <<overdue, raising, ticker, faults>>
  BY DEF RecordPing
<1>2. /\ Deadline' = Deadline /\ Deadline \in Nat /\ Window + Interval <= Deadline
      /\ Late \in Nat
  BY <1>1, DeadlineMoves DEF Inv
<1>3. TypeOK'
  BY <1>1, <1>2 DEF Inv, TypeOK, HeartbeatState
<1>4. \A g \in Switch :
        /\ state'[g] = IF g = h THEN "healthy" ELSE state[g]
        /\ since'[g] = IF g = h THEN 0 ELSE since[g]
        /\ alerted'[g] = IF g = h THEN "no" ELSE alerted[g]
  BY <1>1 DEF Inv, TypeOK
<1>5. ticker \in 0..Interval /\ Window \in Nat /\ Interval \in Nat
  BY HeartbeatAssumption DEF Inv, TypeOK
<1>6. SweptInTime'
  BY <1>1, <1>2, <1>4, <1>5 DEF Inv, SweptInTime
<1>7. RaisedTruly'
  BY <1>1, <1>4, <1>5 DEF Inv, RaisedTruly
<1> QED
  BY <1>3, <1>6, <1>7 DEF Inv

(* A sweep reads the table: what it does not read is within its window.     *)
LEMMA SweepStartsInv ==
    ASSUME Inv, SweepStarts
    PROVE  Inv'
<1>1. /\ ticker = 0 /\ ticker' = Interval /\ raising = {}
      /\ overdue' = {h \in Switch : Overdue(h)}
      /\ UNCHANGED <<state, since, raising, faults, alerted>>
  BY DEF SweepStarts, Sweeping
<1>2. Deadline' = Deadline /\ Deadline \in Nat /\ Window + Interval <= Deadline
  BY <1>1, DeadlineMoves DEF Inv
<1>3. Window \in Nat /\ Interval \in Nat
  BY HeartbeatAssumption
<1>4. TypeOK'
  BY <1>1, <1>3 DEF Inv, TypeOK
<1>5. SweptInTime'
  <2> SUFFICES ASSUME NEW h \in Switch, state[h] = "healthy"
               PROVE  /\ since[h] <= Deadline
                      /\ h \notin overdue' => since[h] + Interval <= Deadline
    BY <1>1, <1>2 DEF SweptInTime
  <2>1. since[h] \in Nat
    BY DeadlineMoves DEF Inv, TypeOK
  <2>2. since[h] <= Deadline
    BY DEF Inv, SweptInTime
  <2>3. h \notin overdue' => since[h] <= Window
    BY <1>1, <1>3, <2>1 DEF Overdue
  <2> QED
    BY <1>2, <1>3, <2>1, <2>2, <2>3
<1>6. RaisedTruly'
  BY <1>1 DEF Inv, RaisedTruly
<1> QED
  BY <1>4, <1>5, <1>6 DEF Inv

(* A switch is marked: only one that was healthy, so that nothing has been  *)
(* raised for its silence.                                                  *)
LEMMA MarkMissingInv ==
    ASSUME Inv, NEW h \in Switch, MarkMissing(h)
    PROVE  Inv'
<1>1. /\ raising = {} /\ overdue' = overdue \ {h}
      /\ UNCHANGED <<since, ticker, faults, alerted>>
  BY DEF MarkMissing
<1>2. Deadline' = Deadline
  BY <1>1, DeadlineMoves DEF Inv
<1>3. CASE state[h] = "healthy"
  <2>1. state' = [state EXCEPT ![h] = "missing"] /\ raising' = {h}
    BY <1>3 DEF MarkMissing
  <2>2. TypeOK'
    BY <1>1, <2>1 DEF Inv, TypeOK, HeartbeatState
  <2>3. \A g \in Switch : state'[g] = IF g = h THEN "missing" ELSE state[g]
    BY <2>1 DEF Inv, TypeOK
  <2>4. SweptInTime' /\ RaisedTruly'
    BY <1>1, <1>2, <1>3, <2>1, <2>3 DEF Inv, SweptInTime, RaisedTruly
  <2> QED
    BY <2>2, <2>4 DEF Inv
<1>4. CASE state[h] # "healthy"
  <2>1. UNCHANGED <<state, raising>>
    BY <1>4 DEF MarkMissing
  <2>2. TypeOK'
    BY <1>1, <2>1 DEF Inv, TypeOK
  <2>3. SweptInTime' /\ RaisedTruly'
    BY <1>1, <1>2, <1>4, <2>1 DEF Inv, SweptInTime, RaisedTruly
  <2> QED
    BY <2>2, <2>3 DEF Inv
<1> QED
  BY <1>3, <1>4

(* An alert is raised: for the present silence only if the job has not come *)
(* back since.                                                              *)
LEMMA RaiseInv ==
    ASSUME Inv, NEW h \in Switch, Raise(h)
    PROVE  Inv'
<1>1. /\ h \in raising /\ raising' = {}
      /\ alerted' = [alerted EXCEPT ![h] = IF since[h] > Window THEN "yes" ELSE "early"]
      /\ UNCHANGED <<state, since, overdue, ticker, faults>>
  BY DEF Raise
<1>2. Deadline' = Deadline /\ Late \in Nat
  BY <1>1, DeadlineMoves DEF Inv
<1>3. TypeOK'
  BY <1>1 DEF Inv, TypeOK
<1>4. SweptInTime'
  BY <1>1, <1>2 DEF Inv, SweptInTime
<1>5. since[h] \in Nat /\ Window \in Nat
  BY <1>2, HeartbeatAssumption DEF Inv, TypeOK
<1>6. state[h] = "healthy" => ~(since[h] > Window)
  BY <1>1, <1>5 DEF Inv, RaisedTruly
<1>7. \A g \in Switch : state[g] = "healthy" => alerted'[g] # "yes"
  BY <1>1, <1>6 DEF Inv, TypeOK, RaisedTruly
<1>8. RaisedTruly'
  BY <1>1, <1>7 DEF RaisedTruly
<1> QED
  BY <1>3, <1>4, <1>8 DEF Inv

(* A sweep is cut off: what it had read waits for the next one, an interval *)
(* later at most.                                                           *)
LEMMA FaultInv ==
    ASSUME Inv, SweepFails \/ Crash
    PROVE  Inv'
<1>1. /\ faults < MaxFaults /\ faults' = faults + 1
      /\ overdue' = {} /\ raising' = {} /\ ticker' \in {ticker, Interval}
      /\ UNCHANGED <<state, since, alerted>>
  BY DEF SweepFails, Crash
<1>2. Deadline' = Deadline + Interval /\ Deadline \in Nat /\ Late \in Nat
  BY <1>1, DeadlineMoves DEF Inv
<1>3. /\ ticker \in 0..Interval /\ ticker' \in 0..Interval /\ Interval \in Nat
      /\ faults' \in 0..MaxFaults
  BY <1>1, HeartbeatAssumption DEF Inv, TypeOK
<1>4. TypeOK'
  BY <1>1, <1>3 DEF Inv, TypeOK
<1>5. SweptInTime'
  <2> SUFFICES ASSUME NEW h \in Switch, state[h] = "healthy"
               PROVE  since[h] <= Deadline' /\ since[h] + ticker' <= Deadline'
    BY <1>1 DEF SweptInTime
  <2>1. since[h] \in Nat /\ since[h] <= Deadline
    BY <1>2 DEF Inv, TypeOK, SweptInTime
  <2> QED
    BY <1>2, <1>3, <2>1
<1>6. RaisedTruly'
  BY <1>1 DEF Inv, RaisedTruly
<1> QED
  BY <1>4, <1>5, <1>6 DEF Inv

(* A second goes by, and brings the tick nearer by as much.                 *)
LEMMA TickInv ==
    ASSUME Inv, Tick
    PROVE  Inv'
<1>1. /\ overdue = {} /\ raising = {} /\ ticker > 0 /\ ticker' = ticker - 1
      /\ since' = [h \in Switch |->
                    IF state[h] \in {"healthy", "missing"} /\ since[h] < Late
                    THEN since[h] + 1 ELSE since[h]]
      /\ UNCHANGED <<state, overdue, raising, faults, alerted>>
  BY DEF Tick, Sweeping
<1>2. Deadline' = Deadline /\ Deadline \in Nat /\ Late \in Nat
  BY <1>1, DeadlineMoves DEF Inv
<1>3. ticker \in 1..Interval /\ ticker' \in 0..Interval /\ Interval \in Nat
  BY <1>1, HeartbeatAssumption DEF Inv, TypeOK
<1>4. \A h \in Switch : /\ since[h] \in 0..Late /\ since'[h] \in 0..Late
                        /\ since'[h] \in {since[h], since[h] + 1}
  BY <1>1, <1>2 DEF Inv, TypeOK
<1>5. TypeOK'
  <2>1. since' \in [Switch -> 0..Late]
    BY <1>1, <1>4
  <2> QED
    BY <1>1, <1>3, <2>1 DEF Inv, TypeOK
<1>6. SweptInTime'
  <2> SUFFICES ASSUME NEW h \in Switch, state[h] = "healthy"
               PROVE  since'[h] <= Deadline /\ since'[h] + ticker' <= Deadline
    BY <1>1, <1>2 DEF SweptInTime
  <2>1. since[h] + ticker <= Deadline
    BY <1>1 DEF Inv, SweptInTime
  <2>2. since[h] \in Nat /\ since'[h] \in {since[h], since[h] + 1}
    BY <1>2, <1>4
  <2> QED
    BY <1>1, <1>2, <1>3, <2>1, <2>2
<1>7. RaisedTruly'
  BY <1>1 DEF Inv, RaisedTruly
<1> QED
  BY <1>5, <1>6, <1>7 DEF Inv

-----------------------------------------------------------------------------
(* Inv holds in every reachable state.                                      *)
THEOREM Invariance == Spec => []Inv
<1>1. Inv /\ [Next]_hbVars => Inv'
  <2> SUFFICES ASSUME Inv, [Next]_hbVars PROVE Inv'
    OBVIOUS
  <2>1. ASSUME NEW h \in Switch,
               Sync(h) \/ RecordPing(h) \/ MarkMissing(h) \/ Raise(h)
        PROVE  Inv'
    BY <2>1, SyncInv, RecordPingInv, MarkMissingInv, RaiseInv
  <2>2. CASE SweepStarts
    BY <2>2, SweepStartsInv
  <2>3. CASE SweepFails \/ Crash
    BY <2>3, FaultInv
  <2>4. CASE Tick
    BY <2>4, TickInv
  <2>5. CASE UNCHANGED hbVars
    <3>1. UNCHANGED <<state, since, overdue, raising, ticker, faults, alerted>>
      BY <2>5 DEF hbVars
    <3>2. Deadline' = Deadline
      BY <3>1, DeadlineMoves DEF Inv
    <3> QED
      BY <3>1, <3>2 DEF Inv, TypeOK, SweptInTime, RaisedTruly
  <2> QED
    BY <2>1, <2>2, <2>3, <2>4, <2>5 DEF Next
<1> QED
  BY <1>1, InitInv, PTL DEF Spec

(* A switch keeps its types, and a sweep is between the two transactions of *)
(* one switch at most.                                                      *)
THEOREM TypeCorrect == Spec => []TypeOK
<1>1. Inv => TypeOK
  BY DEF Inv
<1> QED
  BY <1>1, Invariance, PTL

(* A silence is noticed one sweep after its window at the latest; every     *)
(* crash or failed sweep costs one interval, and no more.                   *)
THEOREM SilenceIsNoticed == Spec => []NoticedInTime
<1>1. Inv => NoticedInTime
  BY DEF Inv, SweptInTime, Deadline, NoticedInTime
<1> QED
  BY <1>1, Invariance, PTL

(* Whatever pings come between the steps of a sweep, a silence is raised    *)
(* once, and never for a switch that has not reported.                      *)
THEOREM SilenceIsRaisedOnce == Spec => []RaisedOnce
<1>1. Inv => RaisedOnce
  <2> SUFFICES ASSUME Inv, NEW h \in raising
               PROVE  state[h] # "never_seen" /\ alerted[h] # "yes"
    BY DEF RaisedOnce
  <2>1. h \in Switch
    BY DEF Inv, TypeOK
  <2> QED
    BY <2>1 DEF Inv, RaisedTruly
<1> QED
  BY <1>1, Invariance, PTL
=============================================================================
