------------------------ MODULE TimerSchedulerProofs ------------------------
(***************************************************************************)
(* Proofs about TimerScheduler for any number of timers, any delays, any   *)
(* window and any back-off: what the loop runs, in which order, and how    *)
(* long it sleeps; and that it implements DurableTimers.                   *)
(***************************************************************************)
EXTENDS TimerScheduler, FiniteSetTheorems, WellFoundedInduction, TLAPS

Used == {t \in TimerId : row[t] # "none"}

(* The table has finitely many rows, so counting those before a row makes   *)
(* sense; and the loop holds rows that exist, and runs one that it holds.   *)
RowsExist ==
    /\ IsFiniteSet(Used)
    /\ batch \subseteq Used
    /\ pc = "execute" => picked \in batch

(* A row is stored less than a second before the instant asked for.         *)
StoredTruly ==
    \A t \in TimerId : row[t] = "pending" =>
        asked[t] <= (Second - 1) + AtLeast(due[t], 0)

(* Only a timer that has failed is backing off.                             *)
OnlyFailuresWait == \A t \in TimerId : retryIn[t] > 0 => retryDelay[t] > 0

(* What the loop is about to run is due, and it passed over nothing older   *)
(* that has not failed.                                                     *)
PickedFirst ==
    pc = "execute" =>
        /\ due[picked] <= 0
        /\ \A u \in batch : due[u] < due[picked] => retryDelay[u] > 0

(* The table has not changed since the loop read it, as far as it can know. *)
Told == ~wake /\ owed = 0 /\ ~silent

(* Then what the loop holds is what the table says.                         *)
NothingMissed ==
    Told => /\ pc = "scan" => batch = NextPendingTimers
            /\ pc = "sleep" => \A t \in NextPendingTimers : nap <= Runnable(t)

Inv ==
    /\ TypeOK /\ RowsExist /\ StoredTruly /\ OnlyFailuresWait
    /\ PickedFirst /\ NothingMissed

-----------------------------------------------------------------------------
(* The order of the window.                                                 *)

(* The minimum of a set of natural numbers exists, and Least is it.         *)
LEMMA LeastOfNats ==
    ASSUME NEW S, S \subseteq Nat, S # {}
    PROVE  Least(S) \in S /\ \A y \in S : Least(S) <= y
<1>1. PICK x \in S : \A y \in S : ~(<<y, x>> \in OpToRel(<, Nat))
  BY NatLessThanWellFounded, WFMin
<1>2. \A y \in S : ~(y < x)
  BY <1>1 DEF OpToRel
<1>3. \A y \in S : x <= y
  BY <1>2
<1> QED
  BY <1>3 DEF Least

(* Among finitely many rows one comes first: the one with the fewest rows   *)
(* before it.                                                               *)
LEMMA FirstExists ==
    ASSUME TypeOK, NEW S, S \subseteq TimerId, IsFiniteSet(S), S # {}
    PROVE  \E t \in S : \A u \in S \ {t} : Before(t, u)
<1> DEFINE Ahead(t) == {u \in S : Before(u, t)}
           rank == [t \in S |-> Cardinality(Ahead(t))]
<1>1. \A t \in S : t \in Nat /\ due[t] \in Int
  BY SchedulerAssumption DEF TypeOK
<1>2. rank \in [S -> Nat]
  <2> SUFFICES ASSUME NEW t \in S PROVE Cardinality(Ahead(t)) \in Nat
    OBVIOUS
  <2>1. Ahead(t) \in SUBSET S
    OBVIOUS
  <2> QED
    BY <2>1, FS_Subset, FS_CardinalityType
<1>3. \A t, u \in S : Before(u, t) => rank[u] < rank[t]
  <2> SUFFICES ASSUME NEW t \in S, NEW u \in S, Before(u, t)
               PROVE  rank[u] < rank[t]
    OBVIOUS
  <2>1. Ahead(u) \in SUBSET Ahead(t)
    BY <1>1 DEF Before
  <2>2. u \in Ahead(t) /\ u \notin Ahead(u)
    BY <1>1 DEF Before
  <2>3. Ahead(t) \in SUBSET S
    OBVIOUS
  <2>4. IsFiniteSet(Ahead(t))
    BY <2>3, FS_Subset
  <2>5. /\ Cardinality(Ahead(u)) <= Cardinality(Ahead(t))
        /\ Cardinality(Ahead(t)) = Cardinality(Ahead(u)) => Ahead(t) = Ahead(u)
    BY <2>1, <2>4, FS_Subset
  <2>6. Cardinality(Ahead(t)) # Cardinality(Ahead(u))
    BY <2>2, <2>5
  <2>7. rank[u] <= rank[t] /\ rank[u] # rank[t]
    BY <2>5, <2>6
  <2> QED
    BY <1>2, <2>7
<1>4. {rank[t] : t \in S} \subseteq Nat /\ {rank[t] : t \in S} # {}
  BY <1>2
<1> HIDE DEF rank
<1>5. PICK t \in S : \A u \in S : rank[t] <= rank[u]
  <2> DEFINE Ranks == {rank[t] : t \in S}
  <2>1. Least(Ranks) \in Ranks /\ \A y \in Ranks : Least(Ranks) <= y
    <3> HIDE DEF Ranks
    <3> QED
      BY <1>4, LeastOfNats DEF Ranks
  <2> QED
    BY <2>1
<1>6. \A u \in S : ~Before(u, t)
  BY <1>2, <1>3, <1>5
<1>7. \A u \in S \ {t} : Before(t, u)
  BY <1>1, <1>6 DEF Before
<1> QED
  BY <1>7

-----------------------------------------------------------------------------
(* The passing of time.                                                     *)

(* An instant that moves closer by a tick keeps its place among the others. *)
LEMMA TimeKeepsOrder ==
    ASSUME TypeOK, RowsExist
    PROVE  /\ Sooner \in [TimerId -> Int]
           /\ \A t \in PendingTimers \cup batch :
                /\ due[t] - 1 >= Edge => Sooner[t] = due[t] - 1
                /\ due[t] - 1 < Edge => Sooner[t] < Edge
           /\ \A t, u \in PendingTimers \cup batch :
                /\ due[t] < due[u] => Sooner[t] < Sooner[u]
                /\ due[t] = due[u] => Sooner[t] = Sooner[u]
<1> DEFINE live == PendingTimers \cup batch
           Steps(t) == {d \in (due[t] - 1)..(Edge - 1) :
                            \E v \in live : d = due[v] - 1}
           count == [t \in live |-> Cardinality(Steps(t))]
<1>1. live \subseteq TimerId
  BY DEF PendingTimers, TypeOK
<1>2. Edge \in Int
  BY SchedulerAssumption DEF Edge
<1>3. \A t \in TimerId : due[t] \in Int
  BY DEF TypeOK
<1>4. \A t \in live : IsFiniteSet(Steps(t)) /\ Cardinality(Steps(t)) \in Nat
  <2> SUFFICES ASSUME NEW t \in live
               PROVE  IsFiniteSet(Steps(t)) /\ Cardinality(Steps(t)) \in Nat
    OBVIOUS
  <2>1. due[t] - 1 \in Int /\ Edge - 1 \in Int
    BY <1>1, <1>2, <1>3
  <2>2. IsFiniteSet((due[t] - 1)..(Edge - 1))
    BY <2>1, FS_Interval
  <2>3. Steps(t) \in SUBSET ((due[t] - 1)..(Edge - 1))
    OBVIOUS
  <2>4. IsFiniteSet(Steps(t))
    BY <2>2, <2>3, FS_Subset
  <2> QED
    BY <2>4, FS_CardinalityType
<1>5. \A t \in live : due[t] - 1 < Edge => count[t] > 0
  <2> SUFFICES ASSUME NEW t \in live, due[t] - 1 < Edge PROVE count[t] > 0
    OBVIOUS
  <2>1. due[t] - 1 \in Steps(t)
    BY <1>1, <1>2, <1>3
  <2>2. Cardinality(Steps(t)) # 0
    BY <1>4, <2>1, FS_EmptySet
  <2>3. Cardinality(Steps(t)) \in Nat
    BY <1>4
  <2> QED
    BY <2>2, <2>3
<1>6. \A t, u \in live :
        due[t] < due[u] /\ due[u] - 1 < Edge => count[u] < count[t]
  <2> SUFFICES ASSUME NEW t \in live, NEW u \in live,
                      due[t] < due[u], due[u] - 1 < Edge
               PROVE  count[u] < count[t]
    OBVIOUS
  <2>1. Steps(u) \in SUBSET Steps(t)
    BY <1>1, <1>2, <1>3
  <2>2. due[t] - 1 \in Steps(t) /\ due[t] - 1 \notin Steps(u)
    BY <1>1, <1>2, <1>3
  <2>3. IsFiniteSet(Steps(t))
    BY <1>4
  <2>4. /\ Cardinality(Steps(u)) <= Cardinality(Steps(t))
        /\ Cardinality(Steps(t)) = Cardinality(Steps(u)) => Steps(t) = Steps(u)
    BY <2>1, <2>3, FS_Subset
  <2>5. Cardinality(Steps(t)) # Cardinality(Steps(u))
    BY <2>2, <2>4
  <2>6. Cardinality(Steps(t)) \in Nat /\ Cardinality(Steps(u)) \in Nat
    BY <1>4
  <2>7. Cardinality(Steps(u)) < Cardinality(Steps(t))
    BY <2>4, <2>5, <2>6
  <2> QED
    BY <2>7
<1>7. \A t, u \in live : due[t] = due[u] => count[t] = count[u]
  OBVIOUS
<1>8. count \in [live -> Nat]
  BY <1>4
<1>9. Sooner = [t \in TimerId |->
                    IF t \notin live THEN 0
                    ELSE IF due[t] - 1 >= Edge THEN due[t] - 1
                    ELSE Edge - count[t]]
  <2> DEFINE later == [t \in TimerId |-> due[t] - 1]
             Near(t) == {later[u] : u \in
                           {v \in live : later[t] <= later[v] /\ later[v] < Edge}}
  <2>1. \A t \in TimerId : later[t] = due[t] - 1 /\ later[t] \in Int
    BY <1>3
  <2>2. ASSUME NEW t \in live PROVE Near(t) = Steps(t)
    <3> HIDE DEF later, live
    <3>1. ASSUME NEW d \in Near(t) PROVE d \in Steps(t)
      <4>1. PICK v \in live : d = later[v] /\ later[t] <= later[v] /\ later[v] < Edge
        BY <3>1
      <4>2. d = due[v] - 1 /\ d \in Int /\ due[t] - 1 \in Int
            /\ due[t] - 1 <= d /\ d < Edge
        BY <1>1, <2>1, <4>1
      <4> QED
        BY <1>2, <4>2
    <3>2. ASSUME NEW d \in Steps(t) PROVE d \in Near(t)
      <4>1. PICK v \in live : d = due[v] - 1
        BY <3>2
      <4>2. later[v] = d /\ later[t] <= later[v] /\ later[v] < Edge
        BY <1>1, <1>2, <2>1, <3>2, <4>1
      <4> QED
        BY <4>2
    <3> QED
      BY <3>1, <3>2
  <2>3. \A t \in live : count[t] = Cardinality(Steps(t))
    OBVIOUS
  <2>4. Sooner = [t \in TimerId |->
                    IF t \notin live THEN 0
                    ELSE IF later[t] >= Edge THEN later[t]
                    ELSE Edge - Cardinality(Near(t))]
    BY DEF Sooner
  <2> HIDE DEF Near, Steps, later
  <2> QED
    BY <1>1, <2>1, <2>2, <2>3, <2>4
<1> HIDE DEF count, live
<1>10. \A t \in live :
        /\ due[t] - 1 >= Edge => Sooner[t] = due[t] - 1
        /\ due[t] - 1 < Edge => Sooner[t] = Edge - count[t] /\ Sooner[t] < Edge
  <2> SUFFICES ASSUME NEW t \in live
               PROVE  /\ due[t] - 1 >= Edge => Sooner[t] = due[t] - 1
                      /\ due[t] - 1 < Edge => Sooner[t] = Edge - count[t]
                                                /\ Sooner[t] < Edge
    OBVIOUS
  <2>1. /\ t \in TimerId /\ due[t] \in Int /\ Edge \in Int /\ count[t] \in Nat
        /\ due[t] - 1 < Edge => count[t] > 0
    BY <1>1, <1>2, <1>3, <1>5, <1>8
  <2> QED
    BY <1>9, <2>1
<1>11. Sooner \in [TimerId -> Int]
  <2>1. \A t \in TimerId : due[t] - 1 \in Int
    BY <1>3
  <2>2. \A t \in live : Edge - count[t] \in Int
    BY <1>2, <1>8
  <2> QED
    BY <1>9, <2>1, <2>2
<1>12. \A t, u \in live :
        /\ due[t] < due[u] => Sooner[t] < Sooner[u]
        /\ due[t] = due[u] => Sooner[t] = Sooner[u]
  <2> SUFFICES ASSUME NEW t \in live, NEW u \in live
               PROVE  /\ due[t] < due[u] => Sooner[t] < Sooner[u]
                      /\ due[t] = due[u] => Sooner[t] = Sooner[u]
    OBVIOUS
  <2>1. /\ due[t] \in Int /\ due[u] \in Int /\ Edge \in Int
        /\ count[t] \in Nat /\ count[u] \in Nat
    BY <1>1, <1>2, <1>3, <1>8
  <2>2. /\ due[t] < due[u] /\ due[u] - 1 < Edge => count[u] < count[t]
        /\ due[t] = due[u] => count[t] = count[u]
    BY <1>6, <1>7
  <2> QED
    BY <1>10, <2>1, <2>2
<1> QED
  BY <1>10, <1>11, <1>12 DEF live

(* The rows of the window stay the same as time passes.                     *)
LEMMA TimeKeepsWindow ==
    ASSUME TypeOK, RowsExist, due' = Sooner, row' = row
    PROVE  NextPendingTimers' = NextPendingTimers
<1>1. PendingTimers' = PendingTimers
  BY DEF PendingTimers
<1>2. \A t, u \in PendingTimers : Before(u, t)' <=> Before(u, t)
  <2> SUFFICES ASSUME NEW t \in PendingTimers, NEW u \in PendingTimers
               PROVE  Before(u, t)' <=> Before(u, t)
    OBVIOUS
  <2>1. t \in TimerId /\ u \in TimerId /\ due[t] \in Int /\ due[u] \in Int
    BY DEF PendingTimers, TypeOK
  <2>2. /\ due[t] < due[u] => due'[t] < due'[u]
        /\ due[u] < due[t] => due'[u] < due'[t]
        /\ due[t] = due[u] => due'[t] = due'[u]
        /\ due'[t] \in Int /\ due'[u] \in Int
    BY <2>1, TimeKeepsOrder
  <2> QED
    BY <2>1, <2>2 DEF Before
<1>3. \A t \in PendingTimers :
        {u \in PendingTimers : Before(u, t)'} = {u \in PendingTimers : Before(u, t)}
  BY <1>2
<1> QED
  BY <1>1, <1>3 DEF NextPendingTimers

(* An instant is stored as the start of its second.                         *)
LEMMA StoredInItsSecond ==
    ASSUME TypeOK, NEW d \in Delay
    PROVE  Stored(d) \in Int /\ d <= (Second - 1) + Stored(d)
<1>1. phase + d \in Int /\ Second \in Nat \ {0} /\ d \in Nat
  BY SchedulerAssumption DEF TypeOK
<1>2. \A a \in Int, b \in Nat \ {0} : a % b \in 0..(b - 1)
  OBVIOUS
<1>3. (phase + d) % Second \in 0..(Second - 1)
  BY <1>1, <1>2
<1> QED
  BY <1>1, <1>3 DEF Stored

(* The sleep ends no later than any row the loop has looked at can run.     *)
LEMMA IdleWaitIsShort ==
    ASSUME Inv, pc = "scan", \A t \in Candidate : due[t] > 0
    PROVE  IdleWait \in Nat /\ \A t \in batch : IdleWait <= Runnable(t)
<1> DEFINE ready == {t \in batch : ~Deferred(t)}
           passed == {v \in batch : Deferred(v) /\ \A t \in Candidate : Before(v, t)}
           waits == {MaxIdleWait} \cup {due[t] : t \in Candidate}
                                 \cup {retryIn[u] : u \in passed}
<1>1. TypeOK /\ RowsExist
  BY DEF Inv
<1>2. batch \subseteq TimerId /\ IsFiniteSet(batch)
  <2>1. batch \in SUBSET Used /\ IsFiniteSet(Used)
    BY <1>1 DEF RowsExist
  <2> QED
    BY <2>1, FS_Subset DEF Used
<1>3. \A t \in batch : due[t] \in Int /\ retryIn[t] \in Nat /\ t \in Nat
  BY <1>1, <1>2, SchedulerAssumption DEF TypeOK
<1>4. Candidate = {t \in ready : \A u \in ready \ {t} : Before(t, u)}
  BY DEF Candidate
<1>5. ready \subseteq batch /\ passed \subseteq batch /\ Candidate \subseteq ready
  BY <1>4
<1>6. waits \subseteq Nat /\ waits # {}
  <2>1. \A t \in Candidate : due[t] \in Nat
    BY <1>3, <1>5
  <2>2. \A u \in passed : retryIn[u] \in Nat
    BY <1>3, <1>5
  <2>3. MaxIdleWait \in Nat
    BY SchedulerAssumption
  <2> QED
    BY <2>1, <2>2, <2>3
<1>7. IdleWait = Least(waits)
  BY DEF IdleWait
<1>8. Least(waits) \in waits /\ \A y \in waits : Least(waits) <= y
  <2> HIDE DEF waits
  <2> QED
    BY <1>6, LeastOfNats
<1>9. /\ IdleWait \in Nat
      /\ \A t \in Candidate : IdleWait <= due[t]
      /\ \A u \in passed : IdleWait <= retryIn[u]
  BY <1>6, <1>7, <1>8
<1>10. \A t \in batch : due[t] <= Runnable(t) /\ retryIn[t] <= Runnable(t)
  BY <1>3 DEF Runnable, AtLeast
<1>11. \A t \in batch : Runnable(t) \in Int
  BY <1>3 DEF Runnable, AtLeast
<1> SUFFICES ASSUME NEW t \in batch PROVE IdleWait <= Runnable(t)
  BY <1>9
<1>12. CASE t \in passed
  <2>1. IdleWait <= retryIn[t] /\ retryIn[t] <= Runnable(t)
    BY <1>9, <1>10, <1>12
  <2> QED
    BY <1>3, <1>9, <1>11, <2>1
<1>13. CASE t \notin passed
  <2>1. PICK c \in Candidate : due[c] <= due[t]
    <3>1. CASE Deferred(t)
      <4>1. PICK c \in Candidate : ~Before(t, c)
        BY <1>13, <3>1
      <4> QED
        BY <1>3, <1>5, <4>1 DEF Before
    <3>2. CASE ~Deferred(t)
      <4>1. t \in ready /\ ready \in SUBSET batch
        BY <3>2
      <4>2. IsFiniteSet(ready) /\ ready \subseteq TimerId /\ ready # {}
        BY <1>2, <4>1, FS_Subset
      <4>3. PICK c \in ready : \A u \in ready \ {c} : Before(c, u)
        <5> HIDE DEF ready
        <5> QED
          BY <1>1, <4>2, FirstExists
      <4>4. c \in Candidate
        BY <1>4, <4>3
      <4>5. c # t => Before(c, t)
        BY <4>1, <4>3
      <4> QED
        BY <1>3, <1>5, <4>4, <4>5 DEF Before
    <3> QED
      BY <3>1, <3>2
  <2>2. IdleWait <= due[c] /\ due[t] <= Runnable(t)
    BY <1>9, <1>10
  <2>3. due[c] \in Int /\ due[t] \in Int
    BY <1>3, <1>5
  <2> QED
    BY <1>9, <1>11, <2>1, <2>2, <2>3
<1> QED
  BY <1>12, <1>13

-----------------------------------------------------------------------------
(* The invariant, action by action.                                         *)

(* The initial state satisfies the invariant.                               *)
LEMMA InitInv == Init => Inv
<1> SUFFICES ASSUME Init PROVE Inv
  OBVIOUS
<1>1. TypeOK
  <2>1. 0 \in 0..(Second - 1) /\ 0 \in 0..MaxFaults
    BY SchedulerAssumption
  <2>2. silent \in BOOLEAN /\ wake \in BOOLEAN
    BY DEF Init
  <2>3. /\ row \in [TimerId -> Stage]
        /\ due \in [TimerId -> Int] /\ asked \in [TimerId -> Nat]
        /\ retryIn \in [TimerId -> Nat] /\ retryDelay \in [TimerId -> Nat]
    BY DEF Init, Stage
  <2> QED
    BY <2>1, <2>2, <2>3 DEF Init, TypeOK
<1>2. RowsExist
  <2>1. Used = {}
    BY DEF Init, Used
  <2> QED
    BY <2>1, FS_EmptySet DEF Init, RowsExist
<1>3. StoredTruly /\ OnlyFailuresWait /\ PickedFirst /\ NothingMissed
  BY DEF Init, StoredTruly, OnlyFailuresWait, PickedFirst, NothingMissed
<1> QED
  BY <1>1, <1>2, <1>3 DEF Inv

(* A row is inserted: it is not among those the loop holds.                 *)
LEMMA ScheduleInv ==
    ASSUME Inv, NEW t \in TimerId, NEW d \in Delay, Schedule(t, d)
    PROVE  Inv'
<1> USE DEF table, callers, loop, backoff
<1>1. TypeOK /\ RowsExist
  BY DEF Inv
<1>2. row[t] = "none" /\ t \notin batch
  BY <1>1 DEF Schedule, NewId, RowsExist, Used
<1>3. d \in Nat /\ Stored(d) \in Int /\ d <= (Second - 1) + Stored(d)
  BY <1>1, StoredInItsSecond, SchedulerAssumption
<1>4. TypeOK'
  BY <1>1, <1>3 DEF Schedule, Inserted, TypeOK, Stage
<1>5. RowsExist'
  <2>1. Used' = Used \cup {t}
    BY <1>1 DEF Schedule, Inserted, Used, TypeOK
  <2>2. IsFiniteSet(Used \cup {t})
    BY <1>1, FS_AddElement DEF RowsExist
  <2> QED
    BY <1>1, <2>1, <2>2 DEF RowsExist, Schedule
<1>6. StoredTruly'
  <2> SUFFICES ASSUME NEW u \in TimerId, row'[u] = "pending"
               PROVE  asked'[u] <= (Second - 1) + AtLeast(due'[u], 0)
    BY DEF StoredTruly
  <2>1. CASE u = t
    <3>1. asked'[u] = d /\ due'[u] = Stored(d)
      BY <1>1, <2>1 DEF Schedule, Inserted, TypeOK
    <3> QED
      BY <1>3, <3>1, SchedulerAssumption DEF AtLeast
  <2>2. CASE u # t
    BY <1>1, <2>2 DEF Schedule, Inserted, TypeOK, Inv, StoredTruly
  <2> QED
    BY <2>1, <2>2
<1>7. OnlyFailuresWait'
  BY DEF Inv, OnlyFailuresWait, Schedule
<1>8. PickedFirst'
  <2>1. \A u \in batch : due'[u] = due[u]
    BY <1>1, <1>2 DEF Schedule, Inserted, TypeOK
  <2> QED
    BY <1>1, <2>1 DEF Inv, PickedFirst, RowsExist, Schedule
<1>9. NothingMissed'
  BY <1>1 DEF NothingMissed, Told, Schedule, TypeOK
<1> QED
  BY <1>4, <1>5, <1>6, <1>7, <1>8, <1>9 DEF Inv

(* A row is cancelled, and the loop is to be told.                          *)
LEMMA CancelInv ==
    ASSUME Inv, NEW t \in TimerId, Cancel(t)
    PROVE  Inv'
<1> USE DEF table, callers, loop, backoff
<1>1. TypeOK /\ RowsExist
  BY DEF Inv
<1>2. TypeOK'
  BY <1>1 DEF Cancel, TypeOK, Stage
<1>3. RowsExist'
  <2>1. Used' = Used
    BY <1>1 DEF Cancel, Used, TypeOK
  <2> QED
    BY <1>1, <2>1 DEF RowsExist, Cancel
<1>4. StoredTruly'
  BY <1>1 DEF Inv, StoredTruly, Cancel, TypeOK
<1>5. OnlyFailuresWait' /\ PickedFirst'
  BY DEF Inv, OnlyFailuresWait, PickedFirst, Cancel
<1>6. NothingMissed'
  BY <1>1 DEF NothingMissed, Told, Cancel, TypeOK
<1> QED
  BY <1>2, <1>3, <1>4, <1>5, <1>6 DEF Inv

(* A step that leaves the table and the back-offs alone, and keeps the loop *)
(* from holding or running anything new.                                    *)
LEMMA LoopRestsInv ==
    ASSUME Inv, TypeOK', UNCHANGED <<table, backoff>>,
           \/ UNCHANGED <<pc, batch, picked>> /\ ~Told'
           \/ pc' \in {"read", "pause"} /\ batch' \subseteq batch
    PROVE  Inv'
<1> USE DEF table, callers, loop, backoff
<1>1. RowsExist'
  <2>1. Used' = Used
    BY DEF Used
  <2> QED
    BY <2>1 DEF Inv, RowsExist
<1>2. StoredTruly' /\ OnlyFailuresWait'
  BY DEF Inv, StoredTruly, OnlyFailuresWait
<1>3. PickedFirst'
  BY DEF Inv, PickedFirst
<1>4. NothingMissed'
  BY DEF NothingMissed
<1> QED
  BY <1>1, <1>2, <1>3, <1>4 DEF Inv

(* Callers wake the loop or forget to, the loop fails to read, wakes up, or *)
(* is restarted.                                                            *)
LEMMA IdleInv ==
    ASSUME Inv, Wake \/ ForgetWake \/ ReadFails \/ Woken \/ SleepEnds
    PROVE  Inv'
<1> USE DEF table, callers, loop, backoff
<1>1. TypeOK
  BY DEF Inv
<1>2. TypeOK'
  <2>1. CASE Wake \/ ForgetWake
    <3>1. silent' \in BOOLEAN /\ wake' \in BOOLEAN
      BY <1>1, <2>1 DEF Wake, ForgetWake, TypeOK
    <3>2. owed' \in Nat
      BY <1>1, <2>1 DEF Wake, ForgetWake, TypeOK
    <3> QED
      BY <1>1, <2>1, <3>1, <3>2 DEF Wake, ForgetWake, TypeOK
  <2>2. CASE ReadFails
    BY <1>1, <2>2, SchedulerAssumption DEF ReadFails, TypeOK
  <2>3. CASE Woken \/ SleepEnds
    <3>1. wake' \in BOOLEAN
      BY <1>1, <2>3 DEF Woken, SleepEnds, TypeOK
    <3> QED
      BY <1>1, <2>3, <3>1 DEF Woken, SleepEnds, TypeOK
  <2> QED
    BY <2>1, <2>2, <2>3
<1>3. \/ UNCHANGED <<pc, batch, picked>> /\ ~Told'
      \/ pc' \in {"read", "pause"} /\ batch' \subseteq batch
  BY DEF Wake, ForgetWake, ReadFails, Woken, SleepEnds, Told
<1>4. UNCHANGED <<table, backoff>>
  BY DEF Wake, ForgetWake, ReadFails, Woken, SleepEnds
<1> QED
  BY <1>2, <1>3, <1>4, LoopRestsInv

(* After a crash nothing is held and nothing backs off.                     *)
LEMMA CrashInv ==
    ASSUME Inv, Crash
    PROVE  Inv'
<1> USE DEF table, callers, loop, backoff
<1>1. TypeOK /\ RowsExist
  BY DEF Inv
<1>2. TypeOK'
  <2>1. silent' \in BOOLEAN /\ wake' \in BOOLEAN
    BY DEF Crash
  <2>2. faults' \in 0..MaxFaults
    BY <1>1, SchedulerAssumption DEF Crash, TypeOK
  <2>3. retryIn' \in [TimerId -> Nat] /\ retryDelay' \in [TimerId -> Nat]
    BY DEF Crash
  <2> QED
    BY <1>1, <2>1, <2>2, <2>3 DEF Crash, TypeOK
<1>3. RowsExist'
  <2>1. Used' = Used
    BY DEF Crash, Used
  <2> QED
    BY <1>1, <2>1 DEF Crash, RowsExist
<1>4. StoredTruly' /\ OnlyFailuresWait' /\ PickedFirst' /\ NothingMissed'
  BY DEF Inv, Crash, StoredTruly, OnlyFailuresWait, PickedFirst, NothingMissed
<1> QED
  BY <1>2, <1>3, <1>4 DEF Inv

(* The loop reads the window.                                               *)
LEMMA ReadInv ==
    ASSUME Inv, Read
    PROVE  Inv'
<1> USE DEF table, callers, loop, backoff
<1>1. TypeOK /\ RowsExist
  BY DEF Inv
<1>2. NextPendingTimers \subseteq Used
  BY DEF NextPendingTimers, PendingTimers, Used
<1>3. TypeOK'
  BY <1>1, <1>2 DEF Read, TypeOK, Used
<1>4. RowsExist'
  <2>1. Used' = Used
    BY DEF Read, Used
  <2> QED
    BY <1>1, <1>2, <2>1 DEF Read, RowsExist
<1>5. StoredTruly' /\ OnlyFailuresWait' /\ PickedFirst'
  BY DEF Inv, Read, StoredTruly, OnlyFailuresWait, PickedFirst
<1>6. NothingMissed'
  <2>1. NextPendingTimers' = NextPendingTimers
    BY DEF Read, NextPendingTimers, PendingTimers, Before
  <2> QED
    BY <2>1 DEF Read, NothingMissed
<1> QED
  BY <1>3, <1>4, <1>5, <1>6 DEF Inv

(* The loop picks the first row that is due, or goes to sleep.              *)
LEMMA ScanInv ==
    ASSUME Inv, Scan
    PROVE  Inv'
<1> USE DEF table, callers, loop, backoff
<1>1. TypeOK /\ RowsExist
  BY DEF Inv
<1>2. batch \subseteq TimerId /\ pc = "scan"
  BY <1>1 DEF Scan, TypeOK
<1>3. UNCHANGED <<table, callers, wake, backoff, phase, faults>>
  BY DEF Scan
<1>4. Used' = Used /\ NextPendingTimers' = NextPendingTimers
  BY <1>3 DEF Used, NextPendingTimers, PendingTimers, Before
<1>5. StoredTruly' /\ OnlyFailuresWait'
  BY <1>3 DEF Inv, StoredTruly, OnlyFailuresWait
<1>6. ASSUME NEW t \in Candidate, due[t] <= 0, picked' = t, pc' = "execute",
             UNCHANGED <<batch, nap>>
      PROVE  Inv'
  <2>1. t \in batch /\ \A u \in batch \ {t} : ~Deferred(u) => Before(t, u)
    BY DEF Candidate
  <2>2. TypeOK'
    BY <1>1, <1>2, <1>3, <1>6, <2>1 DEF TypeOK
  <2>3. RowsExist'
    BY <1>1, <1>4, <1>6, <2>1 DEF RowsExist
  <2>4. PickedFirst'
    <3> SUFFICES ASSUME NEW u \in batch, due[u] < due[t] PROVE retryDelay[u] > 0
      BY <1>3, <1>6 DEF PickedFirst
    <3>1. due[t] \in Int /\ due[u] \in Int /\ retryIn[u] \in Nat
      BY <1>1, <1>2, <2>1 DEF TypeOK
    <3>2. Deferred(u)
      BY <2>1, <3>1 DEF Before
    <3> QED
      BY <1>2, <3>2 DEF Inv, OnlyFailuresWait, Deferred
  <2>5. NothingMissed'
    BY <1>6 DEF NothingMissed
  <2> QED
    BY <1>5, <2>2, <2>3, <2>4, <2>5 DEF Inv
<1>7. ASSUME \A t \in Candidate : due[t] > 0, pc' = "sleep", nap' = IdleWait,
             batch' = {}, UNCHANGED picked
      PROVE  Inv'
  <2>1. IdleWait \in Nat /\ \A t \in batch : IdleWait <= Runnable(t)
    BY <1>2, <1>7, IdleWaitIsShort
  <2>2. TypeOK'
    BY <1>1, <1>3, <1>7, <2>1 DEF TypeOK
  <2>3. RowsExist'
    BY <1>1, <1>4, <1>7 DEF RowsExist
  <2>4. PickedFirst'
    BY <1>7 DEF PickedFirst
  <2>5. NothingMissed'
    <3> SUFFICES ASSUME Told', NEW t \in NextPendingTimers'
                 PROVE  nap' <= Runnable(t)'
      BY <1>7 DEF NothingMissed
    <3>1. Told
      BY <1>3 DEF Told
    <3>2. t \in batch
      BY <1>2, <1>4, <3>1 DEF Inv, NothingMissed
    <3>3. Runnable(t)' = Runnable(t)
      BY <1>3 DEF Runnable
    <3> QED
      BY <1>7, <2>1, <3>2, <3>3
  <2> QED
    BY <1>5, <2>2, <2>3, <2>4, <2>5 DEF Inv
<1> QED
  BY <1>6, <1>7 DEF Scan

(* An execution returns to the read, whatever came of it.                   *)
LEMMA ReturnInv ==
    ASSUME Inv, TypeOK', Return, IsFiniteSet(Used'), StoredTruly',
           OnlyFailuresWait'
    PROVE  Inv'
BY DEF Inv, Return, RowsExist, PickedFirst, NothingMissed

(* The handler has run: its timer is done, and may have scheduled another.  *)
LEMMA ExecuteInv ==
    ASSUME Inv, NEW t \in TimerId, Execute(t)
    PROVE  Inv'
<1> USE DEF table, callers, loop, backoff
<1>1. TypeOK /\ RowsExist
  BY DEF Inv
<1>2. Return /\ row[t] = "pending" /\ ClearDefer(t)
  BY DEF Execute
<1>3. /\ retryIn' \in [TimerId -> Nat] /\ retryDelay' \in [TimerId -> Nat]
      /\ OnlyFailuresWait'
  BY <1>1, <1>2 DEF ClearDefer, TypeOK, Inv, OnlyFailuresWait
<1>4. CASE row' = [row EXCEPT ![t] = "done"] /\ UNCHANGED <<due, asked>>
  <2>1. TypeOK'
    BY <1>1, <1>2, <1>3, <1>4 DEF Return, TypeOK, Stage
  <2>2. Used' = Used
    BY <1>1, <1>2, <1>4 DEF Used, TypeOK
  <2>3. StoredTruly'
    BY <1>1, <1>4 DEF Inv, StoredTruly, TypeOK
  <2> QED
    BY <1>1, <1>2, <1>3, <2>1, <2>2, <2>3, ReturnInv DEF RowsExist
<1>5. ASSUME NEW u \in TimerId, NEW d \in Delay, NewId(u),
             row' = [row EXCEPT ![t] = "done", ![u] = "pending"],
             due' = [due EXCEPT ![u] = Stored(d)],
             asked' = [asked EXCEPT ![u] = d]
      PROVE  Inv'
  <2>1. d \in Nat /\ Stored(d) \in Int /\ d <= (Second - 1) + Stored(d)
    BY <1>1, StoredInItsSecond, SchedulerAssumption
  <2>2. u # t /\ row[u] = "none"
    BY <1>2, <1>5 DEF NewId
  <2>3. TypeOK'
    BY <1>1, <1>2, <1>3, <1>5, <2>1 DEF Return, TypeOK, Stage
  <2>4. Used' = Used \cup {u}
    BY <1>1, <1>2, <1>5, <2>2 DEF Used, TypeOK
  <2>5. IsFiniteSet(Used')
    BY <1>1, <2>4, FS_AddElement DEF RowsExist
  <2>6. StoredTruly'
    <3> SUFFICES ASSUME NEW v \in TimerId, row'[v] = "pending"
                 PROVE  asked'[v] <= (Second - 1) + AtLeast(due'[v], 0)
      BY DEF StoredTruly
    <3>1. CASE v = u
      <4>1. asked'[v] = d /\ due'[v] = Stored(d)
        BY <1>1, <1>5, <3>1 DEF TypeOK
      <4> QED
        BY <2>1, <4>1, SchedulerAssumption DEF AtLeast
    <3>2. CASE v # u
      BY <1>1, <1>5, <3>2 DEF TypeOK, Inv, StoredTruly
    <3> QED
      BY <3>1, <3>2
  <2> QED
    BY <1>2, <1>3, <2>3, <2>5, <2>6, ReturnInv
<1> QED
  BY <1>4, <1>5 DEF Execute

(* The timer was cancelled since, or its transaction failed.                *)
LEMMA NothingRunsInv ==
    ASSUME Inv, NEW t \in TimerId, NotPending(t) \/ ExecuteFails(t)
    PROVE  Inv'
<1> USE DEF table, callers, loop, backoff
<1>1. TypeOK /\ RowsExist
  BY DEF Inv
<1>2. Return /\ UNCHANGED table
  BY DEF NotPending, ExecuteFails
<1>3. /\ retryIn' \in [TimerId -> Nat] /\ retryDelay' \in [TimerId -> Nat]
      /\ OnlyFailuresWait'
  <2>1. CASE ClearDefer(t)
    BY <1>1, <2>1 DEF ClearDefer, TypeOK, Inv, OnlyFailuresWait
  <2>2. CASE Defer(t)
    <3> DEFINE delay == IF retryDelay[t] = 0
                        THEN RetryBackoff
                        ELSE AtMost(2 * retryDelay[t], MaxRetryBackoff)
    <3>1. retryDelay[t] \in Nat
      BY <1>1 DEF TypeOK
    <3>2. delay \in Nat /\ delay > 0
      BY <3>1, SchedulerAssumption DEF AtMost
    <3>3. /\ retryDelay' = [retryDelay EXCEPT ![t] = delay]
          /\ retryIn' = [retryIn EXCEPT ![t] = delay]
      BY <2>2 DEF Defer
    <3> HIDE DEF delay
    <3> QED
      BY <1>1, <3>2, <3>3 DEF TypeOK, Inv, OnlyFailuresWait
  <2> QED
    BY <2>1, <2>2 DEF NotPending, ExecuteFails
<1>4. TypeOK'
  BY <1>1, <1>2, <1>3 DEF Return, TypeOK
<1>5. Used' = Used
  BY <1>2 DEF Used
<1>6. StoredTruly'
  BY <1>2 DEF Inv, StoredTruly
<1> QED
  BY <1>1, <1>2, <1>3, <1>4, <1>5, <1>6, ReturnInv DEF RowsExist

(* A tick passes.                                                           *)
LEMMA TickInv ==
    ASSUME Inv, Tick
    PROVE  Inv'
<1> USE DEF table, callers, loop, backoff
<1>1. TypeOK /\ RowsExist
  BY DEF Inv
<1>2. UNCHANGED <<row, owed, silent, wake, pc, batch, picked, retryDelay, faults>>
  BY DEF Tick
<1>3. due' = Sooner /\ Sooner \in [TimerId -> Int]
  BY <1>1, TimeKeepsOrder DEF Tick
<1>4. Edge \in Int /\ Edge <= 0 /\ Second \in Nat /\ Edge = 1 - Second
  BY SchedulerAssumption DEF Edge
<1>5. \A t \in PendingTimers \cup batch :
        /\ due[t] \in Int /\ due'[t] \in Int
        /\ due[t] - 1 >= Edge => due'[t] = due[t] - 1
        /\ due[t] - 1 < Edge => due'[t] < Edge
  BY <1>1, <1>3, TimeKeepsOrder DEF PendingTimers, TypeOK
<1>6. /\ asked' \in [TimerId -> Nat] /\ retryIn' \in [TimerId -> Nat]
      /\ nap' \in Nat
  BY <1>1 DEF Tick, AtLeast, TypeOK
<1>7. TypeOK'
  <2>1. \A a \in Int, b \in Nat \ {0} : a % b \in 0..(b - 1)
    OBVIOUS
  <2>2. phase + 1 \in Int /\ Second \in Nat \ {0}
    BY <1>1, SchedulerAssumption DEF TypeOK
  <2>3. phase' \in 0..(Second - 1)
    BY <2>1, <2>2 DEF Tick
  <2> QED
    BY <1>1, <1>2, <1>3, <1>6, <2>3 DEF TypeOK
<1>8. RowsExist'
  <2>1. Used' = Used
    BY <1>2 DEF Used
  <2> QED
    BY <1>1, <1>2, <2>1 DEF RowsExist
<1>9. StoredTruly'
  <2> SUFFICES ASSUME NEW t \in TimerId, row[t] = "pending"
               PROVE  asked'[t] <= (Second - 1) + AtLeast(due'[t], 0)
    BY <1>2 DEF StoredTruly
  <2>1. asked[t] \in Nat /\ asked[t] <= (Second - 1) + AtLeast(due[t], 0)
    BY <1>1 DEF TypeOK, Inv, StoredTruly
  <2>2. asked'[t] = AtLeast(asked[t] - 1, 0)
    BY DEF Tick
  <2>3. t \in PendingTimers \cup batch
    BY DEF PendingTimers
  <2> QED
    BY <1>4, <1>5, <2>1, <2>2, <2>3 DEF AtLeast
<1>10. OnlyFailuresWait'
  BY <1>1, <1>2 DEF Tick, AtLeast, TypeOK, Inv, OnlyFailuresWait
<1>11. PickedFirst'
  <2> SUFFICES ASSUME pc = "execute"
               PROVE  /\ due'[picked] <= 0
                      /\ \A u \in batch : due'[u] < due'[picked] => retryDelay[u] > 0
    BY <1>2 DEF PickedFirst
  <2>1. picked \in batch /\ due[picked] <= 0
    BY <1>1 DEF RowsExist, Inv, PickedFirst
  <2>2. due'[picked] <= 0
    BY <1>4, <1>5, <2>1
  <2>3. ASSUME NEW u \in batch, due'[u] < due'[picked] PROVE due[u] < due[picked]
    <3>1. /\ due[picked] < due[u] => due'[picked] < due'[u]
          /\ due[picked] = due[u] => due'[picked] = due'[u]
      BY <1>1, <1>3, <2>1, TimeKeepsOrder
    <3>2. /\ due[u] \in Int /\ due[picked] \in Int
          /\ due'[u] \in Int /\ due'[picked] \in Int
      BY <1>5, <2>1
    <3> QED
      BY <2>3, <3>1, <3>2
  <2> QED
    BY <2>2, <2>3 DEF Inv, PickedFirst
<1>12. NothingMissed'
  <2>1. NextPendingTimers' = NextPendingTimers
    BY <1>1, <1>2, <1>3, TimeKeepsWindow
  <2>2. ASSUME NEW t \in NextPendingTimers, nap <= Runnable(t)
        PROVE  nap' <= Runnable(t)'
    <3>1. t \in PendingTimers /\ t \in TimerId
      BY DEF NextPendingTimers, PendingTimers
    <3>2. /\ retryIn[t] \in Nat /\ nap \in Nat
          /\ retryIn'[t] = AtLeast(retryIn[t] - 1, 0) /\ nap' = AtLeast(nap - 1, 0)
      BY <1>1, <3>1 DEF Tick, TypeOK
    <3>3. Runnable(t)' = AtLeast(AtLeast(due'[t], retryIn'[t]), 0)
      BY DEF Runnable
    <3> QED
      BY <1>4, <1>5, <2>2, <3>1, <3>2, <3>3 DEF Runnable, AtLeast
  <2> QED
    BY <1>2, <2>1, <2>2 DEF Inv, NothingMissed, Told
<1> QED
  BY <1>7, <1>8, <1>9, <1>10, <1>11, <1>12 DEF Inv

(* Stuttering.                                                              *)
LEMMA StutterInv ==
    ASSUME Inv, UNCHANGED tsVars
    PROVE  Inv'
<1> USE DEF tsVars, table, callers, loop, backoff
<1>1. TypeOK'
  BY DEF Inv, TypeOK
<1>2. NextPendingTimers' = NextPendingTimers /\ Used' = Used
  BY DEF NextPendingTimers, PendingTimers, Before, Used
<1>3. \A t : Runnable(t)' = Runnable(t)
  BY DEF Runnable
<1> QED
  BY <1>1, <1>2, <1>3
  DEF Inv, RowsExist, StoredTruly, OnlyFailuresWait, PickedFirst, NothingMissed,
      Told

(* No step breaks the invariant.                                            *)
LEMMA NextInv == Inv /\ [Next]_tsVars => Inv'
BY ScheduleInv, CancelInv, IdleInv, CrashInv, ReadInv, ScanInv, ExecuteInv,
   NothingRunsInv, TickInv, StutterInv
DEF Next

(* The invariant holds in every reachable state.                            *)
THEOREM Invariance == Spec => []Inv
BY InitInv, NextInv, PTL DEF Spec

-----------------------------------------------------------------------------
(* Every field keeps its type; a sleep in particular is never negative.     *)
THEOREM TypeCorrect == Spec => []TypeOK
<1>1. Inv => TypeOK
  BY DEF Inv
<1> QED
  BY <1>1, Invariance, PTL

(* No lost wake-up: once every caller has woken the loop, it sleeps past the*)
(* moment of no row of its window.                                          *)
THEOREM NoWakeIsLost == Spec => []NoOversleep
<1>1. Inv => NoOversleep
  BY DEF Inv, NothingMissed, Told, NoOversleep, Settled
<1> QED
  BY <1>1, Invariance, PTL

(* A timer runs ahead of an older pending one only if that one has failed   *)
(* or was written after the batch was read.                                 *)
THEOREM OrderKept == Spec => OldestFirst
<1>1. Inv /\ [Next]_tsVars =>
        \A t, u \in TimerId :
            (row[t] = "pending" /\ row'[t] = "done"
                /\ row[u] = "pending" /\ due[u] < due[t])
                    => u \notin batch \/ retryDelay[u] > 0
  <2> SUFFICES ASSUME Inv, [Next]_tsVars, NEW t \in TimerId, NEW u \in TimerId,
                      row[t] = "pending", row'[t] = "done",
                      due[u] < due[t], u \in batch
               PROVE  retryDelay[u] > 0
    OBVIOUS
  <2> USE DEF tsVars, table, callers, loop, backoff
  <2>1. row \in [TimerId -> Stage]
    BY DEF Inv, TypeOK
  <2>2. PICK v \in TimerId : Execute(v)
    BY <2>1 DEF Next, Schedule, Inserted, Cancel, Wake, ForgetWake, Read, ReadFails,
                Scan, NotPending, ExecuteFails, Woken, SleepEnds, Crash, Tick
  <2>3. v = t
    BY <2>1, <2>2 DEF Execute
  <2>4. pc = "execute" /\ picked = t
    BY <2>2, <2>3 DEF Execute
  <2> QED
    BY <2>4 DEF Inv, PickedFirst
<1> QED
  BY <1>1, Invariance, PTL DEF Spec, OldestFirst

-----------------------------------------------------------------------------
(* TimerScheduler implements DurableTimers: whatever the loop, the callers, *)
(* crashes and failures do, a timer happens once unless it is cancelled, and*)
(* no earlier than the second of the instant asked for.                     *)
THEOREM Refinement == Spec => OnceUnlessCancelled
<1> USE DEF table, callers, loop, backoff
<1>1. Init => Durable!DTInit
  BY DEF Init, Durable!DTInit
<1>2. Inv /\ [Next]_tsVars => [Durable!DTNext]_(Durable!dtVars)
  <2> SUFFICES ASSUME Inv, [Next]_tsVars
               PROVE  Durable!DTNext \/ UNCHANGED Durable!dtVars
    OBVIOUS
  <2>1. TypeOK
    BY DEF Inv
  <2>2. ASSUME NEW t \in TimerId, NEW d \in Delay, Schedule(t, d)
        PROVE  Durable!DTNext
    BY <2>2 DEF Schedule, NewId, Inserted, Durable!DTNext, Durable!Ask
  <2>3. ASSUME NEW t \in TimerId, Cancel(t) PROVE Durable!DTNext
    BY <2>3 DEF Cancel, Durable!DTNext, Durable!CallOff
  <2>4. ASSUME NEW t \in TimerId, Execute(t) PROVE Durable!DTNext
    <3>1. row[t] = "pending" /\ asked[t] <= Second - 1
      <4>1. row[t] = "pending" /\ due[t] <= 0
        BY <2>4 DEF Execute, Inv, PickedFirst
      <4>2. AtLeast(due[t], 0) = 0
        BY <2>1, <4>1 DEF AtLeast, TypeOK
      <4>3. asked[t] <= (Second - 1) + 0
        BY <4>1, <4>2 DEF Inv, StoredTruly
      <4> QED
        BY <4>1, <4>3, SchedulerAssumption
    <3>2. \E new \in SUBSET {u \in TimerId : row[u] = "none"} :
            /\ row' = [u \in TimerId |-> IF u = t THEN "done"
                                         ELSE IF u \in new THEN "pending"
                                         ELSE row[u]]
            /\ \A u \in TimerId :
                    IF u \in new THEN asked'[u] \in Delay ELSE asked'[u] = asked[u]
      <4>1. CASE row' = [row EXCEPT ![t] = "done"] /\ UNCHANGED <<due, asked>>
        <5>1. row' = [u \in TimerId |-> IF u = t THEN "done"
                                         ELSE IF u \in {} THEN "pending"
                                         ELSE row[u]]
          BY <2>1, <4>1 DEF TypeOK
        <5>2. \A u \in TimerId : IF u \in {} THEN asked'[u] \in Delay
                                             ELSE asked'[u] = asked[u]
          BY <4>1
        <5>3. {} \in SUBSET {u \in TimerId : row[u] = "none"}
          OBVIOUS
        <5> QED
          BY <5>1, <5>2, <5>3
      <4>2. ASSUME NEW v \in TimerId, NEW d \in Delay, NewId(v),
                   row' = [row EXCEPT ![t] = "done", ![v] = "pending"],
                   asked' = [asked EXCEPT ![v] = d]
            PROVE  \E new \in SUBSET {u \in TimerId : row[u] = "none"} :
                      /\ row' = [u \in TimerId |-> IF u = t THEN "done"
                                                   ELSE IF u \in new THEN "pending"
                                                   ELSE row[u]]
                      /\ \A u \in TimerId :
                              IF u \in new THEN asked'[u] \in Delay
                                           ELSE asked'[u] = asked[u]
        <5>1. v # t /\ {v} \in SUBSET {u \in TimerId : row[u] = "none"}
          BY <3>1, <4>2 DEF NewId
        <5>2. row' = [u \in TimerId |-> IF u = t THEN "done"
                                         ELSE IF u \in {v} THEN "pending"
                                         ELSE row[u]]
          BY <2>1, <4>2, <5>1 DEF TypeOK
        <5>3. \A u \in TimerId : IF u \in {v} THEN asked'[u] \in Delay
                                               ELSE asked'[u] = asked[u]
          BY <2>1, <4>2 DEF TypeOK
        <5> QED
          BY <5>1, <5>2, <5>3
      <4> QED
        BY <2>4, <4>1, <4>2 DEF Execute
    <3>3. asked' = [u \in TimerId |-> asked'[u]]
      BY <2>1, <2>4 DEF Execute, TypeOK
    <3>4. Durable!Happen(t)
      BY <3>1, <3>2, <3>3 DEF Durable!Happen
    <3> QED
      BY <3>4 DEF Durable!DTNext
  <2>5. CASE Tick
    <3>1. \A t \in TimerId :
            AtLeast(asked[t] - 1, 0) = IF asked[t] > 0 THEN asked[t] - 1 ELSE 0
      BY <2>1 DEF AtLeast, TypeOK
    <3> QED
      BY <2>5, <3>1 DEF Tick, Durable!DTNext, Durable!Pass
  <2>6. CASE UNCHANGED <<row, asked>>
    BY <2>6 DEF Durable!dtVars
  <2> QED
    BY <2>2, <2>3, <2>4, <2>5, <2>6
    DEF Next, tsVars, Wake, ForgetWake, Read, ReadFails, Scan, NotPending,
        ExecuteFails, Woken, SleepEnds, Crash
<1> QED
  BY <1>1, <1>2, Invariance, PTL DEF Spec, OnceUnlessCancelled, Durable!DTSpec
=============================================================================
