--------------------------- MODULE ScheduleProofs ---------------------------
(***************************************************************************)
(* Proofs about Schedule: for any schedules, overrides, zones and windows   *)
(* the rota, the hours of a restriction, the calendar and the coverage      *)
(* check are what their definitions without an algorithm say.               *)
(***************************************************************************)
EXTENDS Schedule, WellFoundedInduction, SequenceTheorems, TLAPS

-----------------------------------------------------------------------------
(* Integers.                                                               *)

LEMMA Smallest ==
    ASSUME NEW S, S \subseteq Nat, S # {}
    PROVE  \E n \in S : \A m \in S : n <= m
<1>1. PICK n \in S : \A m \in S : ~(<<m, n>> \in OpToRel(<, Nat))
  BY NatLessThanWellFounded, WFMin
<1>2. \A m \in S : ~(m < n)
  BY <1>1 DEF OpToRel
<1> QED
  BY <1>2

(* The least and the greatest member of a set of integers with a bound.    *)
LEMMA LeastOf ==
    ASSUME NEW S, S \subseteq Int, S # {}, NEW b \in Int, \A x \in S : b <= x
    PROVE  Min(S) \in S /\ Min(S) \in Int /\ \A x \in S : Min(S) <= x
<1> DEFINE N == {x - b : x \in S}
<1>1. N \subseteq Nat /\ N # {}
  <2>1. \A x \in S : x - b \in Nat
    OBVIOUS
  <2> QED
    BY <2>1
<1>2. PICK n \in N : \A m \in N : n <= m
  BY <1>1, Smallest
<1>3. PICK x \in S : n = x - b
  BY <1>2
<1>4. \A y \in S : x <= y
  BY <1>2, <1>3
<1> QED
  BY <1>3, <1>4 DEF Min

LEMMA GreatestOf ==
    ASSUME NEW S, S \subseteq Int, S # {}, NEW b \in Int, \A x \in S : x <= b
    PROVE  Max(S) \in S /\ Max(S) \in Int /\ \A x \in S : x <= Max(S)
<1> DEFINE N == {b - x : x \in S}
<1>1. N \subseteq Nat /\ N # {}
  <2>1. \A x \in S : b - x \in Nat
    OBVIOUS
  <2> QED
    BY <2>1
<1>2. PICK n \in N : \A m \in N : n <= m
  BY <1>1, Smallest
<1>3. PICK x \in S : n = b - x
  BY <1>2
<1>4. \A y \in S : y <= x
  BY <1>2, <1>3
<1> QED
  BY <1>3, <1>4 DEF Max

LEMMA MinIs ==
    ASSUME NEW S, S \subseteq Int, NEW m \in S, \A x \in S : m <= x
    PROVE  Min(S) = m
<1> DEFINE n == Min(S)
<1>1. n \in S /\ \A x \in S : n <= x
  BY DEF Min
<1> HIDE DEF n
<1>2. n \in Int /\ m \in Int /\ n <= m /\ m <= n
  BY <1>1
<1>3. n = m
  BY <1>2
<1> QED
  BY <1>3 DEF n

LEMMA MaxIs ==
    ASSUME NEW S, S \subseteq Int, NEW m \in S, \A x \in S : x <= m
    PROVE  Max(S) = m
<1> DEFINE n == Max(S)
<1>1. n \in S /\ \A x \in S : x <= n
  BY DEF Max
<1> HIDE DEF n
<1>2. n \in Int /\ m \in Int /\ n <= m /\ m <= n
  BY <1>1
<1>3. n = m
  BY <1>2
<1> QED
  BY <1>3 DEF n

(* What a remainder is, and how it counts on.                              *)
LEMMA Quotient ==
    ASSUME NEW x \in Int, NEW n \in Nat \ {0}
    PROVE  /\ x \div n \in Int /\ x % n \in 0 .. n - 1
           /\ x = n * (x \div n) + (x % n)
  OBVIOUS

LEMMA RemainderIs ==
    ASSUME NEW q \in Int, NEW r \in Int, NEW n \in Nat \ {0}, 0 <= r, r < n
    PROVE  (n * q + r) % n = r
  OBVIOUS

LEMMA RemainderCounts ==
    ASSUME NEW x \in Int, NEW n \in Nat \ {0}
    PROVE  (x + 1) % n = ((x % n) + 1) % n
<1> DEFINE q == x \div n
           r == x % n
<1>1. q \in Int /\ r \in 0 .. n - 1 /\ x = n * q + r
  BY Quotient
<1> HIDE DEF q, r
<1>2. CASE r + 1 < n
  <2>1. x + 1 = n * q + (r + 1)
    BY <1>1
  <2>2. (n * q + (r + 1)) % n = r + 1
    BY <1>1, <1>2, RemainderIs
  <2>3. (r + 1) % n = r + 1
    BY <1>1, <1>2
  <2> QED
    BY <2>1, <2>2, <2>3 DEF r
<1>3. CASE r + 1 = n
  <2>1. n * (q + 1) = n * q + n
    BY <1>1
  <2>2. x + 1 = n * (q + 1) + 0
    BY <1>1, <1>3, <2>1
  <2>3. (n * (q + 1) + 0) % n = 0
    BY <1>1, RemainderIs
  <2>4. n % n = 0
    <3>1. n = n * 1 + 0
      OBVIOUS
    <3> QED
      BY <3>1, RemainderIs
  <2> QED
    BY <1>3, <2>2, <2>3, <2>4 DEF r
<1> QED
  BY <1>1, <1>2, <1>3

-----------------------------------------------------------------------------
(* Days.                                                                   *)

LEMMA DayBounds ==
    ASSUME NEW w \in Int
    PROVE  DayOf(w) \in Int /\ 48 * DayOf(w) <= w /\ w < 48 * DayOf(w) + 48
  BY DEF DayOf, DayLength, Hour

LEMMA DayIs ==
    ASSUME NEW w \in Int, NEW d \in Int, 48 * d <= w, w < 48 * d + 48
    PROVE  DayOf(w) = d
  BY DEF DayOf, DayLength, Hour

LEMMA DayOrder ==
    ASSUME NEW v \in Int, NEW w \in Int, v <= w
    PROVE  DayOf(v) <= DayOf(w)
  BY DEF DayOf, DayLength, Hour

LEMMA TimeOf ==
    ASSUME NEW w \in Int
    PROVE  w % DayLength = w - 48 * DayOf(w) /\ w % DayLength \in 0..47
  BY DEF DayOf, DayLength, Hour

LEMMA WeekdaysRepeat ==
    ASSUME NEW d \in Int
    PROVE  WeekdayOf(d) \in 0..6 /\ WeekdayOf(d + 7) = WeekdayOf(d)
  BY DEF WeekdayOf

LEMMA SameWeekday ==
    ASSUME NEW d \in Int, NEW e \in Int, WeekdayOf(d) = WeekdayOf(e)
    PROVE  \E k \in Int : e = d + 7 * k
<1>1. 7 * ((e - d) \div 7) = e - d /\ (e - d) \div 7 \in Int
  BY DEF WeekdayOf
<1> QED
  BY <1>1

LEMMA WeekdayComes ==
    ASSUME NEW d \in Int, NEW weekday \in 0..6
    PROVE  \E k \in 0..6 : WeekdayOf(d + k) = weekday
  BY DEF WeekdayOf

-----------------------------------------------------------------------------
(* Zones.                                                                  *)

(* A zone that no change of the clock takes out of a date.                 *)
Plain(z) == z \in Zone /\ MovesAnHour(z) /\ SkipsByDay(z)

(* The first instant at which the calendar has got to a wall clock.        *)
Reached(w, z) ==
    IF w - z.old < z.turn THEN w - z.old
    ELSE IF w - z.new < z.turn THEN z.turn ELSE w - z.new

LEMMA LocalType ==
    ASSUME NEW z \in Zone, NEW t \in Int
    PROVE  Local(t, z) \in Int /\ DayOf(Local(t, z)) \in Int
<1>1. Local(t, z) \in Int
  BY DEF Local, Offset, Zone
<1> QED
  BY <1>1, DayBounds

LEMMA ReachedType ==
    ASSUME NEW z \in Zone, NEW w \in Int
    PROVE  Reached(w, z) \in Int
  BY DEF Reached, Zone

LEMMA PolicyIsReached ==
    ASSUME NEW z \in Zone, NEW w \in Int
    PROVE  PolicyInstant(w, z) = Reached(w, z)
<1> DEFINE shown == {t \in {w - z.old, w - z.new} : Local(t, z) = w}
<1>1. z.turn \in Int /\ z.old \in Int /\ z.new \in Int
  BY DEF Zone
<1>2. shown \subseteq Int
  BY <1>1
<1>3. CASE w - z.old < z.turn
  <2>1. w - z.old \in shown
    BY <1>1, <1>3 DEF Local, Offset
  <2>2. \A t \in shown : w - z.old <= t
    BY <1>1, <1>3 DEF Local, Offset
  <2>3. Min(shown) = w - z.old
    BY <1>2, <2>1, <2>2, MinIs
  <2> QED
    BY <1>3, <2>1, <2>3 DEF PolicyInstant, Reached
<1>4. CASE ~(w - z.old < z.turn) /\ w - z.new < z.turn
  <2>1. shown = {}
    BY <1>1, <1>4 DEF Local, Offset
  <2> QED
    BY <1>4, <2>1 DEF PolicyInstant, Reached
<1>5. CASE ~(w - z.old < z.turn) /\ ~(w - z.new < z.turn)
  <2>1. w - z.new \in shown
    BY <1>1, <1>5 DEF Local, Offset
  <2>2. \A t \in shown : w - z.new <= t
    BY <1>1, <1>5 DEF Local, Offset
  <2>3. Min(shown) = w - z.new
    BY <1>2, <2>1, <2>2, MinIs
  <2> QED
    BY <1>5, <2>1, <2>3 DEF PolicyInstant, Reached
<1> QED
  BY <1>3, <1>4, <1>5

(* Where time.Date puts a wall clock: where it is shown, or by either      *)
(* offset if it is skipped.                                                *)
LEMMA DateIs ==
    ASSUME NEW z \in Zone, NEW w \in Int
    PROVE  /\ Date(w, z) \in {w - z.old, w - z.new}
           /\ Local(Date(w, z), z) = w \/ (w - z.old >= z.turn /\ w - z.new < z.turn)
  BY DEF Date, Local, Offset, Zone

LEMMA TransitionFound ==
    ASSUME NEW z, Plain(z), NEW w \in Int, w - z.old >= z.turn, w - z.new < z.turn
    PROVE  TransitionOnDate(w, z) = {z.turn}
<1> DEFINE noon == Date(Midnight(w) + 12 * Hour, z)
           lo == noon - 12 * Hour
           hi == noon + 14 * Hour
           gap == z.new - z.old
           D == DayOf(w)
           E == DayOf(z.turn + z.old - gap)
<1>1. z.turn \in Int /\ z.old \in Int /\ z.new \in Int /\ z \in Zone
  BY DEF Zone, Plain
<1>2. gap \in 1..2
  BY <1>1 DEF Plain, MovesAnHour, Hour
<1>3. E = DayOf(z.turn + z.new + gap - 1)
  BY <1>1, <1>2 DEF Plain, SkipsByDay
<1>4. /\ E \in Int
      /\ 48 * E <= z.turn + z.old - gap
      /\ z.turn + z.new + gap - 1 < 48 * E + 48
  <2>1. z.turn + z.old - gap \in Int /\ z.turn + z.new + gap - 1 \in Int
    BY <1>1
  <2> HIDE DEF gap
  <2> QED
    BY <1>3, <2>1, DayBounds
<1>5. D = E
  <2>1. 48 * E <= w /\ w < 48 * E + 48
    BY <1>1, <1>2, <1>4
  <2> HIDE DEF E
  <2> QED
    BY <1>4, <2>1, DayIs
<1>6. Midnight(w) + 12 * Hour = 48 * D + 24 /\ D \in Int
  BY <1>4, <1>5 DEF Midnight, DayLength, Hour
<1>7. noon \in {48 * D + 24 - z.old, 48 * D + 24 - z.new}
  <2>1. 48 * D + 24 \in Int
    BY <1>6
  <2> QED
    BY <1>1, <1>6, <2>1, DateIs
<1>8. noon \in Int /\ lo \in Int /\ hi \in Int
  BY <1>1, <1>6, <1>7 DEF Hour
<1> HIDE DEF D, E
<1>9. lo < z.turn /\ z.turn <= hi
  <2>1. 48 * D <= z.turn + z.old - gap /\ z.turn + z.new + gap - 1 < 48 * D + 48
    BY <1>4, <1>5
  <2> HIDE DEF noon
  <2> QED
    BY <1>1, <1>2, <1>6, <1>7, <2>1 DEF Hour
<1> HIDE DEF noon
<1>10. Offset(lo, z) = z.old /\ Offset(hi, z) = z.new /\ z.old # z.new
  BY <1>1, <1>2, <1>8, <1>9 DEF Offset
<1> DEFINE found == {t \in lo + 1 .. hi : Offset(t, z) = Offset(hi, z)}
<1>11. z.turn \in found /\ found \subseteq Int /\ \A t \in found : z.turn <= t
  BY <1>1, <1>8, <1>9, <1>10 DEF Offset
<1>12. Min(found) = z.turn
  BY <1>11, MinIs
<1> QED
  BY <1>10, <1>12 DEF TransitionOnDate, noon

(* The code resolves a wall clock to the instant the policies name.        *)
LEMMA ResolveIsReached ==
    ASSUME NEW z, Plain(z), NEW w \in Int
    PROVE  Resolve(w, z) = Reached(w, z)
<1> DEFINE t == Date(w, z)
           earlier == {t - shift : shift \in {Hour, HalfHour}}
           matching == {e \in earlier : Matches(e, w, z)}
<1>1. z.turn \in Int /\ z.old \in Int /\ z.new \in Int /\ z \in Zone
  BY DEF Zone, Plain
<1>2. t \in {w - z.old, w - z.new} /\ t \in Int
  BY <1>1, DateIs
<1>3. earlier = {t - 2, t - 1}
  BY DEF Hour, HalfHour
<1>4. CASE Matches(t, w, z)
  <2>1. Resolve(w, z) = Min({t} \cup matching)
    BY <1>4 DEF Resolve
  <2>2. {t} \cup matching \subseteq Int
    BY <1>2, <1>3
  <2>3. Local(t, z) = w
    BY <1>4 DEF Matches
  <2>4. Reached(w, z) \in {t} \cup matching
    <3> HIDE DEF t
    <3>0. z.old - z.new \in -2..2
      BY <1>1 DEF Plain, MovesAnHour, Hour
    <3>1. Reached(w, z) \in {t, t - 1, t - 2} /\ Local(Reached(w, z), z) = w
      <4>1. CASE t < z.turn
        BY <1>1, <1>2, <2>3, <4>1 DEF Reached, Local, Offset
      <4>2. CASE t >= z.turn
        <5>1. t = w - z.new
          BY <1>1, <1>2, <2>3, <4>2 DEF Local, Offset
        <5>2. CASE w - z.old < z.turn
          <6>1. Reached(w, z) = w - z.old
            BY <5>2 DEF Reached
          <6>2. z.old - z.new \in {1, 2}
            BY <1>1, <3>0, <4>2, <5>1, <5>2
          <6>3. w - z.old \in {t - 1, t - 2}
            BY <1>1, <5>1, <6>2
          <6> QED
            BY <1>1, <5>2, <6>1, <6>3 DEF Local, Offset
        <5>3. CASE ~(w - z.old < z.turn)
          <6>1. Reached(w, z) = t
            BY <1>1, <4>2, <5>1, <5>3 DEF Reached
          <6> QED
            BY <2>3, <6>1
        <5> QED
          BY <5>2, <5>3
      <4> QED
        BY <1>1, <1>2, <4>1, <4>2
    <3> QED
      BY <1>3, <3>1 DEF Matches
  <2>5. \A e \in {t} \cup matching : Reached(w, z) <= e
    <3>1. \A e \in {t, t - 1, t - 2} : Local(e, z) = w => Reached(w, z) <= e
      <4> HIDE DEF t
      <4> QED
        BY <1>1, <1>2 DEF Reached, Local, Offset
    <3> QED
      BY <1>3, <2>3, <3>1 DEF Matches
  <2> HIDE DEF t, matching
  <2> QED
    BY <2>1, <2>2, <2>4, <2>5, MinIs
<1>5. CASE ~Matches(t, w, z)
  <2>1. w - z.old >= z.turn /\ w - z.new < z.turn
    BY <1>1, <1>5, DateIs DEF Matches
  <2>2. TransitionOnDate(w, z) = {z.turn}
    BY <2>1, TransitionFound
  <2>3. Resolve(w, z) = Min({z.turn})
    BY <1>5, <2>2 DEF Resolve
  <2>4. Min({z.turn}) = z.turn
    BY <1>1, MinIs
  <2> QED
    BY <1>1, <2>1, <2>3, <2>4 DEF Reached
<1> QED
  BY <1>4, <1>5

(* The calendar reaches wall clocks in their order, and knows which it has  *)
(* reached; clocks put back are an hour behind that at most.               *)
LEMMA ReachedOrder ==
    ASSUME NEW z \in Zone, NEW v \in Int, NEW w \in Int, v <= w
    PROVE  Reached(v, z) <= Reached(w, z)
  BY DEF Reached, Zone

LEMMA ShownIsReached ==
    ASSUME NEW z \in Zone, NEW w \in Int, NEW t \in Int, w <= Local(t, z)
    PROVE  Reached(w, z) <= t
  BY DEF Reached, Local, Offset, Zone

LEMMA ReachedIsShown ==
    ASSUME NEW z, Plain(z), NEW w \in Int, NEW t \in Int, Reached(w, z) <= t
    PROVE  w <= Local(t, z) + 2
<1>1. z.turn \in Int /\ z.old \in Int /\ z.new \in Int /\ z.old - z.new <= 2
  BY DEF Zone, Plain, MovesAnHour, Hour
<1>2. CASE t < z.turn
  BY <1>1, <1>2 DEF Reached, Local, Offset
<1>3. CASE t >= z.turn
  BY <1>1, <1>3 DEF Reached, Local, Offset
<1> QED
  BY <1>1, <1>2, <1>3

LEMMA ReachedIsShownOnce ==
    ASSUME NEW z, Plain(z), NEW w \in Int, NEW t \in Int, Reached(w, z) <= t,
           ShownOnce(t, z)
    PROVE  w <= Local(t, z)
<1>1. z.turn \in Int /\ z.old \in Int /\ z.new \in Int /\ z.old - z.new \in -2..2
  BY DEF Zone, Plain, MovesAnHour, Hour
<1>2. CASE t < z.turn
  BY <1>1, <1>2 DEF Reached, Local, Offset
<1>3. CASE t >= z.turn
  <2>1. SUFFICES ASSUME w > t + z.new PROVE FALSE
    BY <1>1, <1>3 DEF Local, Offset
  <2>2. w - z.old < z.turn
    BY <1>1, <1>3, <2>1 DEF Reached
  <2> DEFINE u == t + z.new - z.old
  <2>3. u \in t - 2 .. t + 2 /\ u < z.turn
    BY <1>1, <2>1, <2>2
  <2>4. Local(u, z) = t + z.new /\ Local(t, z) = t + z.new
    BY <1>1, <1>3, <2>3 DEF Local, Offset
  <2>5. u \in t - Hour .. t + Hour
    BY <2>3 DEF Hour
  <2> HIDE DEF u
  <2>6. u = t
    BY <2>4, <2>5 DEF ShownOnce
  <2> QED
    BY <1>1, <1>3, <2>3, <2>6
<1> QED
  BY <1>1, <1>2, <1>3

(* A wall clock is reached on its date.                                    *)
LEMMA ReachedOnItsDay ==
    ASSUME NEW z, Plain(z), NEW w \in Int
    PROVE  DayOf(Local(Reached(w, z), z)) = DayOf(w)
<1>1. z.turn \in Int /\ z.old \in Int /\ z.new \in Int /\ z \in Zone
  BY DEF Zone, Plain
<1>2. CASE w - z.old < z.turn
  <2>1. Local(Reached(w, z), z) = w
    BY <1>1, <1>2 DEF Reached, Local, Offset
  <2> QED
    BY <2>1
<1>3. CASE ~(w - z.old < z.turn) /\ ~(w - z.new < z.turn)
  <2>1. Local(Reached(w, z), z) = w
    BY <1>1, <1>3 DEF Reached, Local, Offset
  <2> QED
    BY <2>1
<1>4. CASE ~(w - z.old < z.turn) /\ w - z.new < z.turn
  <2>1. Local(Reached(w, z), z) = z.turn + z.new
    BY <1>1, <1>4 DEF Reached, Local, Offset
  <2> DEFINE gap == z.new - z.old
             first == z.turn + z.old - gap
             last == z.turn + z.new + gap - 1
  <2>2. gap > 0 /\ first \in Int /\ last \in Int
    BY <1>1, <1>4
  <2>3. DayOf(first) = DayOf(last)
    BY <2>2 DEF Plain, SkipsByDay
  <2>4. first <= w /\ w <= last /\ first <= z.turn + z.new /\ z.turn + z.new <= last
    BY <1>1, <1>4
  <2> HIDE DEF first, last
  <2>5. DayOf(first) <= DayOf(w) /\ DayOf(w) <= DayOf(last)
    BY <2>2, <2>4, DayOrder
  <2>6. DayOf(first) <= DayOf(z.turn + z.new) /\ DayOf(z.turn + z.new) <= DayOf(last)
    BY <1>1, <2>2, <2>4, DayOrder
  <2>7. /\ DayOf(first) \in Int /\ DayOf(last) \in Int /\ DayOf(w) \in Int
        /\ DayOf(z.turn + z.new) \in Int
    <3>1. z.turn + z.new \in Int
      BY <1>1
    <3> HIDE DEF gap
    <3> QED
      BY <2>2, <3>1, DayBounds
  <2> QED
    BY <2>1, <2>3, <2>5, <2>6, <2>7
<1> QED
  BY <1>2, <1>3, <1>4

(* time.AddDate, and the walks over days built from it, move by dates.     *)
LEMMA AddDateMoves ==
    ASSUME NEW z, Plain(z), NEW t \in Int, NEW n \in Int
    PROVE  /\ AddDate(t, n, z) \in Int
           /\ DayOf(Local(AddDate(t, n, z), z)) = DayOf(Local(t, z)) + n
<1> DEFINE w == Local(t, z) + n * DayLength
           x == Date(w, z)
           D == DayOf(Local(t, z))
<1>1. z.turn \in Int /\ z.old \in Int /\ z.new \in Int /\ z \in Zone
  BY DEF Zone, Plain
<1>2. Local(t, z) \in Int /\ D \in Int
  BY <1>1, LocalType
<1>3. w = Local(t, z) + 48 * n /\ w \in Int
  BY <1>2 DEF DayLength, Hour
<1>4. DayOf(w) = D + n
  <2>1. 48 * D <= Local(t, z) /\ Local(t, z) < 48 * D + 48
    BY <1>2, DayBounds
  <2>2. 48 * (D + n) <= w /\ w < 48 * (D + n) + 48 /\ D + n \in Int
    BY <1>2, <1>3, <2>1
  <2> HIDE DEF w, D
  <2> QED
    BY <1>3, <2>2, DayIs
<1>5. x \in {w - z.old, w - z.new} /\ x \in Int
  <2> HIDE DEF w
  <2> QED
    BY <1>1, <1>3, DateIs
<1>6. DayOf(Local(x, z)) = DayOf(w)
  <2> HIDE DEF w
  <2>1. CASE Local(x, z) = w
    BY <2>1
  <2>2. CASE Local(x, z) # w
    <3>1. w - z.old >= z.turn /\ w - z.new < z.turn
      BY <1>1, <1>3, <2>2, DateIs
    <3> DEFINE gap == z.new - z.old
               first == z.turn + z.old - gap
               last == z.turn + z.new + gap - 1
               y == Local(x, z)
    <3>2. gap > 0 /\ first \in Int /\ last \in Int
      BY <1>1, <1>3, <3>1
    <3>3. DayOf(first) = DayOf(last)
      BY <3>2 DEF Plain, SkipsByDay
    <3> HIDE DEF x
    <3>4. y \in {w - gap, w + gap}
      BY <1>1, <1>3, <1>5, <2>2, <3>1 DEF Local, Offset
    <3>5. first <= w /\ w <= last /\ first <= y /\ y <= last /\ y \in Int
      <4>1. y \in Int
        BY <1>1, <1>5, LocalType
      <4>2. CASE y = w - gap
        BY <1>1, <1>3, <1>5, <2>2, <3>1, <4>1, <4>2 DEF Local, Offset
      <4>3. CASE y = w + gap
        BY <1>1, <1>3, <1>5, <2>2, <3>1, <4>1, <4>3 DEF Local, Offset
      <4> QED
        BY <3>4, <4>1, <4>2, <4>3
    <3> HIDE DEF first, last, y
    <3>6. DayOf(first) <= DayOf(w) /\ DayOf(w) <= DayOf(last)
      BY <1>3, <3>2, <3>5, DayOrder
    <3>7. DayOf(first) <= DayOf(y) /\ DayOf(y) <= DayOf(last)
      BY <3>2, <3>5, DayOrder
    <3>8. DayOf(first) \in Int /\ DayOf(last) \in Int /\ DayOf(w) \in Int /\ DayOf(y) \in Int
      BY <1>3, <3>2, <3>5, DayBounds
    <3>9. DayOf(y) = DayOf(w)
      BY <3>3, <3>6, <3>7, <3>8
    <3> QED
      BY <3>9 DEF y
  <2> QED
    BY <2>1, <2>2
<1>7. AddDate(t, n, z) = x
  BY DEF AddDate
<1> HIDE DEF x, w, D
<1>8. DayOf(Local(x, z)) = D + n
  BY <1>4, <1>6
<1> QED
  BY <1>5, <1>7, <1>8 DEF D

LEMMA NextDayIsLater ==
    ASSUME NEW z, Plain(z), NEW t \in Int
    PROVE  AddDate(t, 1, z) > t
<1> DEFINE w == Local(t, z) + DayLength
           x == Date(w, z)
<1>1. /\ z.turn \in Int /\ z.old \in Int /\ z.new \in Int /\ z \in Zone
      /\ z.old - z.new \in -2..2
  BY DEF Zone, Plain, MovesAnHour, Hour
<1>2. Local(t, z) \in Int /\ w \in Int /\ DayLength = 48
  BY <1>1, LocalType DEF DayLength, Hour
<1>3. x \in {w - z.old, w - z.new}
  <2> HIDE DEF w
  <2> QED
    BY <1>1, <1>2, DateIs
<1>4. x > t
  <2> HIDE DEF x
  <2> QED
    BY <1>1, <1>2, <1>3 DEF Local, Offset
<1>5. AddDate(t, 1, z) = x
  BY <1>2 DEF AddDate
<1> QED
  BY <1>4, <1>5

(* Dates never go back, where the wall clocks shown twice are of one date. *)
LEMMA DatesInOrder ==
    ASSUME NEW z \in Zone, RepeatsByDay(z), NEW t \in Int, NEW u \in Int, t <= u
    PROVE  DayOf(Local(t, z)) <= DayOf(Local(u, z))
<1>1. z.turn \in Int /\ z.old \in Int /\ z.new \in Int
  BY DEF Zone
<1>2. Local(t, z) \in Int /\ Local(u, z) \in Int
  BY LocalType
<1>3. CASE Local(t, z) <= Local(u, z)
  BY <1>2, <1>3, DayOrder
<1>4. CASE Local(t, z) > Local(u, z)
  <2> DEFINE first == z.turn + z.new
             last == z.turn + z.old - 1
  <2>1. z.new < z.old /\ first <= Local(u, z) /\ Local(t, z) <= last
    BY <1>1, <1>4 DEF Local, Offset
  <2>2. DayOf(first) = DayOf(last) /\ first \in Int /\ last \in Int
    BY <1>1, <2>1 DEF RepeatsByDay
  <2> HIDE DEF first, last
  <2>3. DayOf(first) <= DayOf(Local(u, z)) /\ DayOf(Local(t, z)) <= DayOf(last)
    BY <1>2, <2>1, <2>2, DayOrder
  <2>4. DayOf(first) \in Int /\ DayOf(Local(u, z)) \in Int /\ DayOf(Local(t, z)) \in Int
    BY <1>2, <2>2, DayBounds
  <2> QED
    BY <2>2, <2>3, <2>4
<1> QED
  BY <1>2, <1>3, <1>4

-----------------------------------------------------------------------------
(* Handoffs.                                                               *)

Rotates(l) ==
    /\ l.rotation \in {"daily", "weekly"} /\ l.handoffDay \in 0..6
    /\ l.handoffAt \in TimeOfDay /\ Plain(l.zone)

(* The handoffs of the calendar: one on each date that has one.            *)
HandoffDays(l) == {d \in Int : l.rotation = "weekly" => WeekdayOf(d) = l.handoffDay}
Handoff(l, d) == Reached(d * DayLength + l.handoffAt, l.zone)
HandoffsOf(l) == {Handoff(l, d) : d \in HandoffDays(l)}

LEMMA HandoffOnItsDay ==
    ASSUME NEW l, Rotates(l), NEW d \in Int
    PROVE  Handoff(l, d) \in Int /\ DayOf(Local(Handoff(l, d), l.zone)) = d
<1> DEFINE w == d * DayLength + l.handoffAt
<1>1. w \in Int /\ 48 * d <= w /\ w < 48 * d + 48
  BY DEF Rotates, TimeOfDay, DayLength, Hour
<1>2. Plain(l.zone) /\ l.zone \in Zone
  BY DEF Rotates, Plain
<1> HIDE DEF w
<1>3. DayOf(w) = d
  BY <1>1, DayIs
<1>4. Reached(w, l.zone) \in Int /\ DayOf(Local(Reached(w, l.zone), l.zone)) = d
  BY <1>1, <1>2, <1>3, ReachedType, ReachedOnItsDay
<1> QED
  BY <1>4 DEF Handoff, w

LEMMA HandoffOrder ==
    ASSUME NEW l, Rotates(l), NEW d \in Int, NEW e \in Int, d < e
    PROVE  Handoff(l, d) < Handoff(l, e)
<1> DEFINE v == d * DayLength + l.handoffAt
           w == e * DayLength + l.handoffAt
<1>1. v \in Int /\ w \in Int /\ v <= w
  BY DEF Rotates, TimeOfDay, DayLength, Hour
<1>2. l.zone \in Zone
  BY DEF Rotates, Plain
<1> HIDE DEF v, w
<1>3. Reached(v, l.zone) <= Reached(w, l.zone)
  BY <1>1, <1>2, ReachedOrder
<1>4. Handoff(l, d) <= Handoff(l, e)
  BY <1>3 DEF Handoff, v, w
<1>5. Handoff(l, d) # Handoff(l, e)
  BY HandoffOnItsDay
<1> QED
  BY <1>4, <1>5, HandoffOnItsDay

LEMMA HandoffPassed ==
    ASSUME NEW l, Rotates(l), NEW t \in Int, NEW d \in Int, d < DayOf(Local(t, l.zone))
    PROVE  Handoff(l, d) <= t
<1> DEFINE w == d * DayLength + l.handoffAt
           D == DayOf(Local(t, l.zone))
<1>1. l.zone \in Zone
  BY DEF Rotates, Plain
<1>2. Local(t, l.zone) \in Int /\ D \in Int /\ 48 * D <= Local(t, l.zone)
  BY <1>1, LocalType, DayBounds
<1> HIDE DEF D
<1>3. w \in Int /\ w <= 48 * d + 47
  BY DEF Rotates, TimeOfDay, DayLength, Hour
<1>4. d + 1 <= D
  BY <1>2 DEF D
<1>5. w <= Local(t, l.zone)
  <2> HIDE DEF w
  <2> QED
    BY <1>2, <1>3, <1>4
<1> HIDE DEF w
<1>6. Reached(w, l.zone) <= t
  BY <1>1, <1>3, <1>5, ShownIsReached
<1> QED
  BY <1>6 DEF Handoff, w

LEMMA HandoffAhead ==
    ASSUME NEW l, Rotates(l), NEW t \in Int, NEW d \in Int,
           d > DayOf(Local(t, l.zone)) + 1
    PROVE  Handoff(l, d) > t
<1> DEFINE w == d * DayLength + l.handoffAt
           D == DayOf(Local(t, l.zone))
<1>1. l.zone \in Zone /\ Plain(l.zone)
  BY DEF Rotates, Plain
<1>2. Local(t, l.zone) \in Int /\ D \in Int /\ Local(t, l.zone) < 48 * D + 48
  BY <1>1, LocalType, DayBounds
<1> HIDE DEF D
<1>3. w \in Int /\ 48 * d <= w
  BY DEF Rotates, TimeOfDay, DayLength, Hour
<1>4. D + 2 <= d
  BY <1>2 DEF D
<1>5. ~(w <= Local(t, l.zone) + 2)
  <2> HIDE DEF w
  <2> QED
    BY <1>2, <1>3, <1>4
<1> HIDE DEF w
<1>6. ~(Reached(w, l.zone) <= t) /\ Reached(w, l.zone) \in Int
  BY <1>1, <1>3, <1>5, ReachedIsShown, ReachedType
<1> QED
  BY <1>6 DEF Handoff, w

(* The search of the code looks at every handoff of its days.              *)
LEMMA FirstOfIs ==
    ASSUME NEW z, Plain(z), NEW t \in Int, NEW span \in Nat, NEW weekdays,
           NEW at \in TimeOfDay, NEW e \in Int,
           DayOf(Local(t, z)) <= e, e <= DayOf(Local(t, z)) + span,
           WeekdayOf(e) \in weekdays, Reached(e * DayLength + at, z) > t
    PROVE  LET D == DayOf(Local(t, z))
               later == {c \in {Reached(d * DayLength + at, z) :
                                  d \in {x \in D .. D + span : WeekdayOf(x) \in weekdays}} :
                           c > t}
           IN  /\ FirstOf(t, span, weekdays, at, z) = Min(later)
               /\ later \subseteq Int
               /\ Reached(e * DayLength + at, z) \in later
<1> DEFINE D == DayOf(Local(t, z))
           dates == {DayOf(Local(AddDate(t, i, z), z)) : i \in 0..span}
           chosen == {d \in dates : WeekdayOf(d) \in weekdays}
           days == {x \in D .. D + span : WeekdayOf(x) \in weekdays}
           candidates == {Resolve(d * DayLength + at, z) : d \in chosen}
           reached == {Reached(d * DayLength + at, z) : d \in days}
           later == {c \in reached : c > t}
<1>1. z \in Zone /\ D \in Int
  BY LocalType DEF Plain
<1>2. \A i \in 0..span : DayOf(Local(AddDate(t, i, z), z)) = D + i
  BY AddDateMoves
<1> HIDE DEF D
<1>3. dates = D .. D + span
  <2>1. dates = {D + i : i \in 0..span}
    BY <1>2
  <2>2. {D + i : i \in 0..span} \subseteq D .. D + span
    BY <1>1
  <2>3. ASSUME NEW x \in D .. D + span PROVE x \in {D + i : i \in 0..span}
    <3>1. x - D \in 0..span /\ x = D + (x - D)
      BY <1>1
    <3> QED
      BY <3>1
  <2> QED
    BY <2>1, <2>2, <2>3
<1>4. chosen = days
  BY <1>3
<1> HIDE DEF dates
<1>5. \A d \in days : d * DayLength + at \in Int
  BY <1>1 DEF DayLength, Hour, TimeOfDay
<1>6. candidates = reached
  <2>1. \A d \in days : Resolve(d * DayLength + at, z) = Reached(d * DayLength + at, z)
    BY <1>5, ResolveIsReached
  <2> HIDE DEF days, chosen
  <2> QED
    BY <1>4, <2>1
<1>7. later \subseteq Int
  <2> HIDE DEF days
  <2> QED
    BY <1>1, <1>5, ReachedType
<1>8. Reached(e * DayLength + at, z) \in later
  <2>1. e \in days
    BY <1>1 DEF D
  <2> HIDE DEF days
  <2> QED
    BY <2>1
<1>9. FirstOf(t, span, weekdays, at, z)
        = IF {c \in candidates : c > t} = {} THEN Panic
          ELSE Min({c \in candidates : c > t})
  BY DEF FirstOf, dates
<1> HIDE DEF candidates, reached
<1>10. FirstOf(t, span, weekdays, at, z) = Min(later)
  BY <1>6, <1>8, <1>9
<1> QED
  BY <1>7, <1>8, <1>10 DEF D, reached

(* A handoff is found within nine days: the code looks far enough.         *)
LEMMA HandoffDayAhead ==
    ASSUME NEW l, Rotates(l), NEW D \in Int
    PROVE  \E e \in HandoffDays(l) :
               D + 2 <= e /\ e <= D + IF l.rotation = "daily" THEN 2 ELSE 8
<1>1. CASE l.rotation = "daily"
  <2>1. D + 2 \in HandoffDays(l)
    BY <1>1 DEF HandoffDays
  <2> QED
    BY <1>1, <2>1
<1>2. CASE l.rotation # "daily"
  <2>1. PICK k \in 0..6 : WeekdayOf((D + 2) + k) = l.handoffDay
    <3>1. D + 2 \in Int /\ l.handoffDay \in 0..6
      BY DEF Rotates
    <3> QED
      BY <3>1, WeekdayComes
  <2>2. (D + 2) + k \in HandoffDays(l) /\ D + 2 <= (D + 2) + k /\ (D + 2) + k <= D + 8
    BY <2>1 DEF HandoffDays
  <2> QED
    BY <1>2, <2>2
<1> QED
  BY <1>1, <1>2

(* The next handoff is the calendar's.                                     *)
LEMMA NextIs ==
    ASSUME NEW l, Rotates(l), NEW t \in Int
    PROVE  /\ NextHandoff(l, t) \in HandoffsOf(l) /\ NextHandoff(l, t) \in Int
           /\ NextHandoff(l, t) > t
           /\ \A h \in HandoffsOf(l) : h > t => NextHandoff(l, t) <= h
<1> DEFINE z == l.zone
           D == DayOf(Local(t, z))
           span == IF l.rotation = "daily" THEN 2 ELSE 8
           weekdays == IF l.rotation = "daily" THEN 0..6 ELSE {l.handoffDay}
           days == {x \in D .. D + span : WeekdayOf(x) \in weekdays}
           later == {c \in {Reached(d * DayLength + l.handoffAt, z) : d \in days} : c > t}
           next == NextHandoff(l, t)
<1>1. Plain(z) /\ z \in Zone /\ D \in Int /\ l.handoffAt \in TimeOfDay /\ span \in Nat
  BY LocalType DEF Rotates, Plain
<1>2. next = FirstOf(t, span, weekdays, l.handoffAt, z)
  BY DEF Rotates, NextHandoff, NextDaily, NextWeekly
<1>3. PICK e \in HandoffDays(l) : D + 2 <= e /\ e <= D + span
  BY <1>1, HandoffDayAhead
<1>4. e \in Int /\ Handoff(l, e) > t
  <2>1. e \in Int /\ e > D + 1
    BY <1>1, <1>3 DEF HandoffDays
  <2> QED
    BY <2>1, HandoffAhead
<1>5. \A x \in Int : x \in HandoffDays(l) <=> WeekdayOf(x) \in weekdays
  BY WeekdaysRepeat DEF HandoffDays, Rotates
<1> HIDE DEF weekdays
<1>6. /\ FirstOf(t, span, weekdays, l.handoffAt, z) = Min(later)
      /\ later \subseteq Int
      /\ Handoff(l, e) \in later
  <2>1. D <= e /\ e <= D + span /\ WeekdayOf(e) \in weekdays
    BY <1>1, <1>3, <1>4, <1>5
  <2>2. Reached(e * DayLength + l.handoffAt, z) > t
    BY <1>4 DEF Handoff
  <2>3. Reached(e * DayLength + l.handoffAt, z) = Handoff(l, e)
    BY DEF Handoff
  <2>4. e \in Int
    BY <1>4
  <2> HIDE DEF span, z
  <2>5. /\ FirstOf(t, span, weekdays, l.handoffAt, z) = Min(later)
        /\ later \subseteq Int
        /\ Reached(e * DayLength + l.handoffAt, z) \in later
    BY <1>1, <2>1, <2>2, <2>4, FirstOfIs
  <2> QED
    BY <2>3, <2>5
<1>7. days \subseteq HandoffDays(l) /\ days \subseteq Int
  BY <1>1, <1>5
<1> HIDE DEF days
<1>8. \A c \in later : c \in HandoffsOf(l) /\ c > t
  BY <1>7 DEF HandoffsOf, Handoff
<1>9. \A d \in days : Handoff(l, d) > t => Handoff(l, d) \in later
  BY DEF Handoff
<1> HIDE DEF later
<1>10. next \in later /\ next \in Int /\ \A c \in later : next <= c
  <2>1. \A c \in later : t <= c
    BY <1>6, <1>8
  <2> QED
    BY <1>2, <1>6, <2>1, LeastOf
<1> HIDE DEF next
<1>11. ASSUME NEW d \in HandoffDays(l), Handoff(l, d) > t
       PROVE  next <= Handoff(l, d)
  <2>1. d \in Int
    BY DEF HandoffDays
  <2>2. ~(d < D)
    BY <1>1, <1>11, <2>1, HandoffPassed, HandoffOnItsDay
  <2>3. CASE d <= D + span
    <3>1. d \in days
      BY <1>1, <1>5, <2>1, <2>2, <2>3 DEF days
    <3> QED
      BY <1>9, <1>10, <1>11, <3>1
  <2>4. CASE d > D + span
    <3>1. e < d
      BY <1>1, <1>3, <1>4, <2>1, <2>4
    <3>2. Handoff(l, e) < Handoff(l, d)
      BY <1>4, <2>1, <3>1, HandoffOrder
    <3> QED
      BY <1>4, <1>6, <1>10, <2>1, <3>2, HandoffOnItsDay
  <2> QED
    BY <1>1, <2>1, <2>3, <2>4
<1>12. \A h \in HandoffsOf(l) : h > t => next <= h
  BY <1>11 DEF HandoffsOf
<1> QED
  BY <1>8, <1>10, <1>12 DEF next

(* A handoff lies within ten days before any instant, three if they are    *)
(* daily.                                                                  *)
LEMMA HandoffBehind ==
    ASSUME NEW l, Rotates(l), NEW t \in Int
    PROVE  \E d \in HandoffDays(l) :
             /\ DayOf(Local(t, l.zone)) - (IF l.rotation = "daily" THEN 1 ELSE 7) <= d
             /\ d < DayOf(Local(t, l.zone))
             /\ t - (IF l.rotation = "daily" THEN 144 ELSE 480) < Handoff(l, d)
             /\ Handoff(l, d) <= t
<1> DEFINE z == l.zone
           D == DayOf(Local(t, z))
           far == IF l.rotation = "daily" THEN 1 ELSE 7
           back == IF l.rotation = "daily" THEN 144 ELSE 480
           u == t - back
<1>1. Plain(z) /\ z \in Zone /\ D \in Int
  BY LocalType DEF Rotates, Plain
<1>2. PICK d \in HandoffDays(l) : D - far <= d /\ d < D
  <2>1. CASE l.rotation = "daily"
    <3>1. D - 1 \in HandoffDays(l)
      BY <1>1, <2>1 DEF HandoffDays
    <3> QED
      BY <1>1, <2>1, <3>1
  <2>2. CASE l.rotation # "daily"
    <3>1. PICK k \in 0..6 : WeekdayOf((D - 7) + k) = l.handoffDay
      <4>1. D - 7 \in Int /\ l.handoffDay \in 0..6
        BY <1>1 DEF Rotates
      <4> QED
        BY <4>1, WeekdayComes
    <3>2. (D - 7) + k \in HandoffDays(l) /\ D - 7 <= (D - 7) + k /\ (D - 7) + k < D
      BY <1>1, <3>1 DEF HandoffDays
    <3> QED
      BY <2>2, <3>2
  <2> QED
    BY <2>1, <2>2
<1>3. d \in Int
  BY DEF HandoffDays
<1>4. Handoff(l, d) <= t
  BY <1>2, <1>3, HandoffPassed
<1>5. u < Handoff(l, d)
  <2> DEFINE w == d * DayLength + l.handoffAt
  <2>1. z.turn \in Int /\ z.old \in Int /\ z.new \in Int /\ z.old - z.new \in -2..2
    BY <1>1 DEF Zone, Plain, MovesAnHour, Hour
  <2>2. Local(t, z) \in Int /\ Local(t, z) < 48 * D + 48
    BY <1>1, LocalType, DayBounds
  <2>3. w \in Int /\ 48 * d <= w
    BY <1>3 DEF Rotates, TimeOfDay, DayLength, Hour
  <2>4. u \in Int /\ Local(u, z) <= Local(t, z) - back + 2
    BY <2>1 DEF Local, Offset
  <2>5. ~(w <= Local(u, z) + 2)
    <3> HIDE DEF w, D
    <3>1. Local(u, z) \in Int
      BY <1>1, <2>4, LocalType
    <3> QED
      BY <1>1, <1>2, <1>3, <2>2, <2>3, <2>4, <3>1
  <2> HIDE DEF w, u
  <2>6. ~(Reached(w, z) <= u) /\ Reached(w, z) \in Int
    BY <1>1, <2>3, <2>4, <2>5, ReachedIsShown, ReachedType
  <2> QED
    BY <2>4, <2>6 DEF Handoff, w
<1> QED
  BY <1>2, <1>4, <1>5

LEMMA HandoffTypes ==
    ASSUME NEW l, Rotates(l)
    PROVE  HandoffsOf(l) \subseteq Int
<1>1. \A d \in HandoffDays(l) : Handoff(l, d) \in Int
  BY HandoffOnItsDay DEF HandoffDays
<1> QED
  BY <1>1 DEF HandoffsOf

(* The walk from handoff to handoff stops at the last one before t.  P is  *)
(* that handoff.                                                           *)
LEMMA WalkStops ==
    ASSUME NEW l, Rotates(l), NEW t \in Int,
           NEW P \in HandoffsOf(l), P <= t, \A h \in HandoffsOf(l) : h <= t => h <= P,
           NEW f, f = [cur \in Int |-> IF NextHandoff(l, cur) > t THEN cur
                                       ELSE f[NextHandoff(l, cur)]],
           NEW c \in HandoffsOf(l), c <= t
    PROVE  f[c] = P
<1> DEFINE H == HandoffsOf(l)
           bad == {t - x : x \in {y \in H : y <= t /\ f[y] # P}}
<1>1. H \subseteq Int
  BY HandoffTypes
<1>2. \A x \in Int : f[x] = IF NextHandoff(l, x) > t THEN x ELSE f[NextHandoff(l, x)]
  OBVIOUS
<1>3. bad = {}
  <2> SUFFICES ASSUME bad # {} PROVE FALSE
    OBVIOUS
  <2>1. bad \subseteq Nat
    <3>1. \A y \in H : y <= t => t - y \in Nat
      BY <1>1
    <3> QED
      BY <3>1
  <2>2. PICK n \in bad : \A m \in bad : n <= m
    <3> HIDE DEF bad
    <3> QED
      BY <2>1, Smallest
  <2>3. PICK x \in H : x <= t /\ f[x] # P /\ n = t - x
    BY <2>2
  <2>4. x \in Int
    BY <1>1, <2>3
  <2> DEFINE next == NextHandoff(l, x)
  <2>5. next \in H /\ next \in Int /\ next > x /\ \A h \in H : h > x => next <= h
    BY <2>4, NextIs
  <2> HIDE DEF H
  <2>6. CASE next > t
    <3>1. f[x] = x
      BY <1>2, <2>4, <2>6
    <3>2. x <= P
      BY <2>3 DEF H
    <3>3. P \in H /\ P \in Int
      BY <1>1 DEF H
    <3>4. ~(P > x)
      <4> HIDE DEF next
      <4> QED
        BY <2>5, <2>6, <3>3
    <3> QED
      BY <2>3, <2>4, <3>1, <3>2, <3>3, <3>4
  <2>7. CASE ~(next > t)
    <3>1. f[x] = f[next]
      BY <1>2, <2>4, <2>7
    <3> HIDE DEF next
    <3>2. next <= t /\ f[next] # P
      BY <2>3, <2>5, <2>7, <3>1
    <3>3. t - next \in bad
      BY <2>5, <3>2
    <3>4. n <= t - next
      <4> HIDE DEF bad
      <4> QED
        BY <2>2, <3>3
    <3> QED
      BY <2>3, <2>4, <2>5, <3>4
  <2> QED
    BY <2>6, <2>7
<1>4. f[c] = P
  <2> SUFFICES ASSUME f[c] # P PROVE FALSE
    OBVIOUS
  <2>1. t - c \in bad
    OBVIOUS
  <2> QED
    BY <1>3, <2>1
<1> QED
  BY <1>4

LEMMA WalkExists ==
    ASSUME NEW l, Rotates(l), NEW t \in Int,
           NEW P \in HandoffsOf(l), P <= t, \A h \in HandoffsOf(l) : h <= t => h <= P
    PROVE  \E f : f = [cur \in Int |-> IF NextHandoff(l, cur) > t THEN cur
                                       ELSE f[NextHandoff(l, cur)]]
<1> DEFINE H == HandoffsOf(l)
           g == [cur \in Int |-> IF NextHandoff(l, cur) > t THEN cur ELSE P]
<1>1. H \subseteq Int
  BY HandoffTypes
<1>2. ASSUME NEW x \in Int, ~(NextHandoff(l, x) > t)
      PROVE  g[NextHandoff(l, x)] = P
  <2> DEFINE next == NextHandoff(l, x)
             later == NextHandoff(l, next)
  <2>1. next \in H /\ next \in Int
    BY NextIs
  <2>2. next <= P
    BY <1>2, <2>1
  <2>3. CASE later > t
    <3>1. g[next] = next
      BY <2>1, <2>3
    <3>2. \A h \in H : h > next => later <= h
      BY <2>1, NextIs
    <3>3. later \in Int /\ P \in Int /\ P \in H
      BY <1>1, <2>1, NextIs
    <3> HIDE DEF later, next, H
    <3>4. ~(P > next)
      BY <2>3, <3>2, <3>3
    <3>5. next = P
      BY <2>1, <2>2, <3>3, <3>4
    <3> QED
      BY <3>1, <3>5 DEF next
  <2>4. CASE ~(later > t)
    BY <2>1, <2>4
  <2> QED
    BY <2>3, <2>4
<1>3. g = [cur \in Int |-> IF NextHandoff(l, cur) > t THEN cur
                           ELSE g[NextHandoff(l, cur)]]
  BY <1>2
<1> QED
  BY <1>3

LEMMA LastHandoff ==
    ASSUME NEW l, Rotates(l), NEW t \in Int
    PROVE  \E P \in HandoffsOf(l) : P <= t /\ \A h \in HandoffsOf(l) : h <= t => h <= P
<1> DEFINE S == {h \in HandoffsOf(l) : h <= t}
<1>1. S \subseteq Int /\ \A h \in S : h <= t
  BY HandoffTypes
<1>2. S # {}
  <2>1. PICK d \in HandoffDays(l) : Handoff(l, d) <= t
    BY HandoffBehind
  <2> QED
    BY <2>1 DEF HandoffsOf
<1>3. Max(S) \in S /\ \A h \in S : h <= Max(S)
  <2> HIDE DEF S
  <2> QED
    BY <1>1, <1>2, GreatestOf
<1> QED
  BY <1>3

(* The previous handoff is the calendar's.                                 *)
LEMMA PrevIs ==
    ASSUME NEW l, Rotates(l), NEW t \in Int
    PROVE  /\ PrevHandoff(l, t) \in HandoffsOf(l) /\ PrevHandoff(l, t) \in Int
           /\ PrevHandoff(l, t) <= t
           /\ \A h \in HandoffsOf(l) : h <= t => h <= PrevHandoff(l, t)
<1>1. PICK P \in HandoffsOf(l) : P <= t /\ \A h \in HandoffsOf(l) : h <= t => h <= P
  BY LastHandoff
<1> DEFINE back == IF l.rotation = "daily" THEN 2 ELSE 9
           start == t - (back + 1) * DayLength
           first == NextHandoff(l, start)
           Walk[cur \in Int] ==
               LET next == NextHandoff(l, cur)
               IN  IF next > t THEN cur ELSE Walk[next]
<1>2. Walk = [cur \in Int |-> IF NextHandoff(l, cur) > t THEN cur
                              ELSE Walk[NextHandoff(l, cur)]]
  <2>1. \E f : f = [cur \in Int |-> IF NextHandoff(l, cur) > t THEN cur
                                    ELSE f[NextHandoff(l, cur)]]
    BY <1>1, WalkExists
  <2> QED
    BY <2>1
<1>3. first \in HandoffsOf(l) /\ first <= t
  <2>1. start = t - IF l.rotation = "daily" THEN 144 ELSE 480
    BY DEF DayLength, Hour
  <2>2. start \in Int
    BY <2>1
  <2>3. PICK d \in HandoffDays(l) : start < Handoff(l, d) /\ Handoff(l, d) <= t
    BY <2>1, HandoffBehind
  <2>4. Handoff(l, d) \in HandoffsOf(l)
    BY <2>3 DEF HandoffsOf
  <2> HIDE DEF start
  <2>5. first \in HandoffsOf(l) /\ first \in Int /\ first <= Handoff(l, d)
    BY <2>2, <2>3, <2>4, NextIs
  <2>6. Handoff(l, d) \in Int
    BY <2>4, HandoffTypes
  <2> HIDE DEF first
  <2> QED
    BY <2>3, <2>5, <2>6
<1>4. PrevHandoff(l, t) = Walk[first]
  BY DEF PrevHandoff
<1> HIDE DEF Walk, first
<1>5. Walk[first] = P
  BY <1>1, <1>2, <1>3, WalkStops
<1>6. P \in Int
  BY <1>1, HandoffTypes
<1> QED
  BY <1>1, <1>4, <1>5, <1>6

(* The handoffs of nineteen days hold the one before and the one after.    *)
LEMMA NeighboursAreNear ==
    ASSUME NEW l, Rotates(l), NEW t \in Int, NEW d \in HandoffDays(l),
           \/ Handoff(l, d) = NextHandoff(l, t)
           \/ Handoff(l, d) = PrevHandoff(l, t)
    PROVE  d \in DayOf(Local(t, l.zone)) - 9 .. DayOf(Local(t, l.zone)) + 9
<1> DEFINE D == DayOf(Local(t, l.zone))
<1>1. D \in Int /\ d \in Int
  BY LocalType DEF Rotates, Plain, HandoffDays
<1>2. CASE Handoff(l, d) = NextHandoff(l, t)
  <2>1. Handoff(l, d) > t
    BY <1>2, NextIs
  <2>2. ~(d < D)
    BY <1>1, <2>1, HandoffPassed, HandoffOnItsDay
  <2>3. PICK e \in HandoffDays(l) : D + 2 <= e /\ e <= D + 8
    <3>1. PICK e \in HandoffDays(l) : D + 2 <= e /\ e <= D + IF l.rotation = "daily" THEN 2 ELSE 8
      BY <1>1, HandoffDayAhead
    <3>2. e \in Int
      BY DEF HandoffDays
    <3> HIDE DEF D
    <3> QED
      BY <1>1, <3>1, <3>2
  <2>4. e \in Int /\ Handoff(l, e) > t /\ Handoff(l, e) \in HandoffsOf(l)
    <3>1. e \in Int /\ e > D + 1
      BY <1>1, <2>3 DEF HandoffDays
    <3> QED
      BY <3>1, HandoffAhead DEF HandoffsOf
  <2>5. Handoff(l, d) <= Handoff(l, e)
    BY <1>2, <2>4, NextIs
  <2>6. ~(e < d)
    BY <1>1, <2>4, <2>5, HandoffOrder, HandoffOnItsDay
  <2> HIDE DEF D
  <2>7. d \in D - 9 .. D + 9
    BY <1>1, <2>2, <2>3, <2>4, <2>6
  <2> QED
    BY <2>7 DEF D
<1>3. CASE Handoff(l, d) = PrevHandoff(l, t)
  <2>1. Handoff(l, d) <= t
    BY <1>3, PrevIs
  <2>2. ~(d > D + 1)
    BY <1>1, <2>1, HandoffAhead, HandoffOnItsDay
  <2>3. PICK e \in HandoffDays(l) : D - 7 <= e /\ Handoff(l, e) <= t
    <3>1. PICK e \in HandoffDays(l) :
             D - (IF l.rotation = "daily" THEN 1 ELSE 7) <= e /\ Handoff(l, e) <= t
      BY HandoffBehind
    <3>2. e \in Int
      BY DEF HandoffDays
    <3> HIDE DEF D
    <3> QED
      BY <1>1, <3>1, <3>2
  <2>4. e \in Int /\ Handoff(l, e) \in HandoffsOf(l)
    BY DEF HandoffDays, HandoffsOf
  <2>5. Handoff(l, e) <= Handoff(l, d)
    BY <1>3, <2>3, <2>4, PrevIs
  <2>6. ~(d < e)
    BY <1>1, <2>4, <2>5, HandoffOrder, HandoffOnItsDay
  <2> HIDE DEF D
  <2>7. d \in D - 9 .. D + 9
    BY <1>1, <2>2, <2>3, <2>4, <2>6
  <2> QED
    BY <2>7 DEF D
<1> QED
  BY <1>2, <1>3

LEMMA HandoffsAroundAre ==
    ASSUME NEW l, Rotates(l), now \in Int
    PROVE  /\ HandoffsAround(l) \subseteq HandoffsOf(l)
           /\ NextHandoff(l, now) \in HandoffsAround(l)
           /\ PrevHandoff(l, now) \in HandoffsAround(l)
<1> DEFINE today == DayOf(Local(now, l.zone))
           days == {d \in today - 9 .. today + 9 :
                       l.rotation = "weekly" => WeekdayOf(d) = l.handoffDay}
<1>1. today \in Int /\ l.zone \in Zone
  BY LocalType DEF Rotates, Plain
<1>2. \A d \in days : d \in HandoffDays(l) /\ d \in Int
  BY <1>1 DEF HandoffDays
<1>3. \A d \in HandoffDays(l) : d \in today - 9 .. today + 9 => d \in days
  BY <1>1 DEF HandoffDays
<1> HIDE DEF today
<1>4. \A d \in days : PolicyInstant(d * DayLength + l.handoffAt, l.zone) = Handoff(l, d)
  <2> HIDE DEF days
  <2>1. \A d \in days : d * DayLength + l.handoffAt \in Int
    BY <1>2 DEF Rotates, TimeOfDay, DayLength, Hour
  <2> QED
    BY <1>1, <2>1, PolicyIsReached DEF Handoff
<1>5. HandoffsAround(l) = {PolicyInstant(d * DayLength + l.handoffAt, l.zone) : d \in days}
  BY DEF HandoffsAround, today
<1> HIDE DEF days
<1>6. HandoffsAround(l) = {Handoff(l, d) : d \in days}
  BY <1>4, <1>5
<1>7. HandoffsAround(l) \subseteq HandoffsOf(l)
  BY <1>2, <1>6 DEF HandoffsOf
<1>8. NextHandoff(l, now) \in HandoffsAround(l)
  <2>1. PICK d \in HandoffDays(l) : NextHandoff(l, now) = Handoff(l, d)
    BY NextIs DEF HandoffsOf
  <2>2. d \in today - 9 .. today + 9
    BY <2>1, NeighboursAreNear DEF today
  <2> QED
    BY <1>3, <1>6, <2>1, <2>2
<1>9. PrevHandoff(l, now) \in HandoffsAround(l)
  <2>1. PICK d \in HandoffDays(l) : PrevHandoff(l, now) = Handoff(l, d)
    BY PrevIs DEF HandoffsOf
  <2>2. d \in today - 9 .. today + 9
    BY <2>1, NeighboursAreNear DEF today
  <2> QED
    BY <1>3, <1>6, <2>1, <2>2
<1> QED
  BY <1>7, <1>8, <1>9

LEMMA HandoffsAreOnTime ==
    ASSUME NEW l, Rotates(l), now \in Int
    PROVE  /\ NextHandoff(l, now) = Min({h \in HandoffsAround(l) : h > now})
           /\ PrevHandoff(l, now) = Max({h \in HandoffsAround(l) : h <= now})
<1> DEFINE after == {h \in HandoffsAround(l) : h > now}
           before == {h \in HandoffsAround(l) : h <= now}
<1>1. after \subseteq Int /\ before \subseteq Int
  BY HandoffsAroundAre, HandoffTypes
<1>2. NextHandoff(l, now) \in after /\ \A h \in after : NextHandoff(l, now) <= h
  BY HandoffsAroundAre, NextIs
<1>3. PrevHandoff(l, now) \in before /\ \A h \in before : h <= PrevHandoff(l, now)
  BY HandoffsAroundAre, PrevIs
<1> HIDE DEF after, before
<1>4. NextHandoff(l, now) = Min(after) /\ PrevHandoff(l, now) = Max(before)
  BY <1>1, <1>2, <1>3, MinIs, MaxIs
<1> QED
  BY <1>4 DEF after, before

-----------------------------------------------------------------------------
(* Turns.                                                                  *)

(* Turns are counted from the anchor.                                      *)
Turn(l, days) == (IF l.rotation = "weekly" THEN days \div 7 ELSE days) % Len(l.participants)

LEMMA PositionIs ==
    ASSUME NEW l, Rotates(l), NEW da \in HandoffDays(l), l.anchor = Handoff(l, da),
           NEW d \in HandoffDays(l)
    PROVE  Position(l, Handoff(l, d)) = Turn(l, d - da)
<1> DEFINE days == CivilDays(l.anchor, Handoff(l, d), l.zone)
           weeks == IF days >= 0 THEN days \div 7 ELSE -((-days) \div 7)
<1>1. d \in Int /\ da \in Int
  BY DEF HandoffDays
<1>2. days = d - da /\ days \in Int
  BY <1>1, HandoffOnItsDay DEF CivilDays
<1>3. Position(l, Handoff(l, d))
        = (IF l.rotation = "weekly" THEN weeks ELSE days) % Len(l.participants)
  BY DEF Position
<1>4. CASE l.rotation = "weekly"
  <2>1. WeekdayOf(da) = WeekdayOf(d)
    BY <1>4 DEF HandoffDays
  <2>2. PICK k \in Int : d = da + 7 * k
    BY <1>1, <2>1, SameWeekday
  <2>3. days = 7 * k
    BY <1>1, <1>2, <2>2
  <2> HIDE DEF days
  <2>4. weeks = k /\ days \div 7 = k
    BY <2>3
  <2> QED
    BY <1>2, <1>3, <1>4, <2>4 DEF Turn
<1>5. CASE l.rotation # "weekly"
  BY <1>2, <1>3, <1>5 DEF Turn
<1> QED
  BY <1>4, <1>5

(* No handoff lies between two dates of handoffs that follow.              *)
LEMMA TurnsFollow ==
    ASSUME NEW l, Rotates(l), NEW t \in Int
    PROVE  \E d \in HandoffDays(l), e \in HandoffDays(l) :
              /\ PrevHandoff(l, t) = Handoff(l, d) /\ NextHandoff(l, t) = Handoff(l, e)
              /\ e = d + IF l.rotation = "weekly" THEN 7 ELSE 1
<1>1. PICK d \in HandoffDays(l) : PrevHandoff(l, t) = Handoff(l, d)
  BY PrevIs DEF HandoffsOf
<1>2. PICK e \in HandoffDays(l) : NextHandoff(l, t) = Handoff(l, e)
  BY NextIs DEF HandoffsOf
<1>3. d \in Int /\ e \in Int
  BY DEF HandoffDays
<1> DEFINE step == IF l.rotation = "weekly" THEN 7 ELSE 1
           n == d + step
<1>4. step \in {1, 7} /\ n \in Int /\ n > d
  BY <1>3
<1>5. n \in HandoffDays(l)
  BY <1>3, WeekdaysRepeat DEF HandoffDays
<1>6. Handoff(l, n) > t
  <2>1. Handoff(l, n) \in HandoffsOf(l) /\ Handoff(l, n) \in Int /\ Handoff(l, d) \in Int
    BY <1>3, <1>4, <1>5, HandoffOnItsDay DEF HandoffsOf
  <2>2. Handoff(l, d) < Handoff(l, n)
    BY <1>3, <1>4, HandoffOrder
  <2>3. ~(Handoff(l, n) <= t)
    BY <1>1, <2>1, <2>2, PrevIs
  <2> QED
    BY <2>1, <2>3
<1>7. ~(n < e)
  <2>1. Handoff(l, n) \in HandoffsOf(l) /\ Handoff(l, n) \in Int /\ Handoff(l, e) \in Int
    BY <1>3, <1>4, <1>5, HandoffOnItsDay DEF HandoffsOf
  <2>2. Handoff(l, e) <= Handoff(l, n)
    BY <1>2, <1>6, <2>1, NextIs
  <2> QED
    BY <1>3, <1>4, <2>1, <2>2, HandoffOrder
<1>8. d < e
  <2>1. Handoff(l, d) <= t /\ t < Handoff(l, e)
    BY <1>1, <1>2, PrevIs, NextIs
  <2>2. Handoff(l, d) \in Int /\ Handoff(l, e) \in Int
    BY <1>3, HandoffOnItsDay
  <2>3. ~(e < d) /\ e # d
    BY <1>3, <2>1, <2>2, HandoffOrder
  <2> QED
    BY <1>3, <2>3
<1>9. e = n
  <2>1. CASE l.rotation = "weekly"
    <3>1. WeekdayOf(d) = WeekdayOf(e)
      BY <2>1 DEF HandoffDays
    <3>2. PICK k \in Int : e = d + 7 * k
      BY <1>3, <3>1, SameWeekday
    <3> QED
      BY <1>3, <1>7, <1>8, <2>1, <3>2
  <2>2. CASE l.rotation # "weekly"
    BY <1>3, <1>7, <1>8, <2>2
  <2> QED
    BY <2>1, <2>2
<1> QED
  BY <1>1, <1>2, <1>9

LEMMA TurnsAreInOrder ==
    ASSUME NEW l, Rotates(l), NEW t \in Int, l.anchor \in HandoffsOf(l),
           Len(l.participants) \in Nat \ {0}
    PROVE  Position(l, NextHandoff(l, t))
             = (Position(l, PrevHandoff(l, t)) + 1) % Len(l.participants)
<1> DEFINE n == Len(l.participants)
<1>1. PICK da \in HandoffDays(l) : l.anchor = Handoff(l, da)
  BY DEF HandoffsOf
<1>2. PICK d \in HandoffDays(l), e \in HandoffDays(l) :
        /\ PrevHandoff(l, t) = Handoff(l, d) /\ NextHandoff(l, t) = Handoff(l, e)
        /\ e = d + IF l.rotation = "weekly" THEN 7 ELSE 1
  BY TurnsFollow
<1>3. d \in Int /\ e \in Int /\ da \in Int
  BY DEF HandoffDays
<1>4. /\ Position(l, PrevHandoff(l, t)) = Turn(l, d - da)
      /\ Position(l, NextHandoff(l, t)) = Turn(l, e - da)
  BY <1>1, <1>2, PositionIs
<1>5. CASE l.rotation = "weekly"
  <2> DEFINE q == (d - da) \div 7
  <2>1. e - da = (d - da) + 7
    BY <1>2, <1>3, <1>5
  <2>2. q \in Int /\ (e - da) \div 7 = q + 1
    BY <1>3, <2>1
  <2> HIDE DEF q
  <2>3. (q + 1) % n = ((q % n) + 1) % n
    BY <2>2, RemainderCounts
  <2>4. Turn(l, d - da) = q % n /\ Turn(l, e - da) = (q + 1) % n
    BY <1>5, <2>2 DEF Turn, q
  <2> QED
    BY <1>4, <2>3, <2>4
<1>6. CASE l.rotation # "weekly"
  <2> DEFINE q == d - da
  <2>1. e - da = q + 1 /\ q \in Int
    BY <1>2, <1>3, <1>6
  <2>2. Turn(l, d - da) = q % n /\ Turn(l, e - da) = (q + 1) % n
    BY <1>6, <2>1 DEF Turn
  <2> HIDE DEF q
  <2>3. (q + 1) % n = ((q % n) + 1) % n
    BY <2>1, RemainderCounts
  <2> QED
    BY <1>4, <2>2, <2>3
<1> QED
  BY <1>5, <1>6

-----------------------------------------------------------------------------
(* Restrictions.                                                           *)

(* The window of a date, and whether it is open.                           *)
Opens(r, D, z) == Reached(D * DayLength + r.start, z)
Closes(r, D, z) ==
    Reached((IF CrossesMidnight(r) THEN D + 1 ELSE D) * DayLength + r.end, z)
OpenOn(r, D, z, t) ==
    WeekdayOf(D) \in r.days /\ Opens(r, D, z) <= t /\ t < Closes(r, D, z)

LEMMA WindowTypes ==
    ASSUME NEW z \in Zone, NEW r \in Restriction, NEW D \in Int
    PROVE  /\ Opens(r, D, z) \in Int /\ Closes(r, D, z) \in Int
           /\ D * DayLength + r.start \in Int
           /\ (IF CrossesMidnight(r) THEN D + 1 ELSE D) * DayLength + r.end \in Int
<1>1. r.start \in Int /\ r.end \in Int
  BY DEF Restriction, TimeOfDay, DayLength, Hour
<1>2. /\ D * DayLength + r.start \in Int
      /\ (IF CrossesMidnight(r) THEN D + 1 ELSE D) * DayLength + r.end \in Int
  BY <1>1 DEF DayLength, Hour, CrossesMidnight
<1> QED
  BY <1>2, ReachedType DEF Opens, Closes

LEMMA WindowIs ==
    ASSUME NEW z, Plain(z), NEW r \in Restriction, NEW day \in Int, NEW D,
           D = DayOf(Local(day, z))
    PROVE  WindowStartingOn(r, day, z) =
               IF WeekdayOf(D) \in r.days /\ Closes(r, D, z) > Opens(r, D, z)
               THEN {[start |-> Opens(r, D, z), end |-> Closes(r, D, z)]} ELSE {}
<1> DEFINE d == Local(day, z)
           endDay == IF CrossesMidnight(r) THEN Local(AddDate(day, 1, z), z) ELSE d
           start == Resolve(Midnight(d) + r.start, z)
           end == Resolve(Midnight(endDay) + r.end, z)
           E == IF CrossesMidnight(r) THEN D + 1 ELSE D
<1>1. z \in Zone /\ D \in Int
  BY LocalType DEF Plain
<1>2. DayOf(endDay) = E
  BY AddDateMoves
<1>3. Midnight(d) + r.start = D * DayLength + r.start
  BY <1>1 DEF Midnight, DayLength, Hour
<1>4. Midnight(endDay) + r.end = E * DayLength + r.end
  <2> HIDE DEF endDay
  <2>1. E \in Int
    BY <1>1
  <2> HIDE DEF E
  <2> QED
    BY <1>2, <2>1 DEF Midnight, DayLength, Hour
<1>5. start = Opens(r, D, z) /\ end = Closes(r, D, z)
  <2>1. D * DayLength + r.start \in Int /\ E * DayLength + r.end \in Int
    BY <1>1, WindowTypes
  <2> HIDE DEF d, endDay
  <2> QED
    BY <1>3, <1>4, <2>1, ResolveIsReached DEF Opens, Closes
<1>6. WindowStartingOn(r, day, z) =
        IF WeekdayOf(DayOf(d)) \in r.days /\ end > start
        THEN {[start |-> start, end |-> end]} ELSE {}
  BY DEF WindowStartingOn
<1> HIDE DEF start, end
<1> QED
  BY <1>5, <1>6

LEMMA WithinWindow ==
    ASSUME NEW z, Plain(z), NEW r \in Restriction, NEW day \in Int, NEW t \in Int, NEW D,
           D = DayOf(Local(day, z))
    PROVE  (\E w \in WindowStartingOn(r, day, z) : Within(w, t)) <=> OpenOn(r, D, z, t)
<1> DEFINE s == Opens(r, D, z)
           e == Closes(r, D, z)
<1>1. z \in Zone /\ D \in Int
  BY LocalType DEF Plain
<1>2. s \in Int /\ e \in Int
  BY <1>1, WindowTypes
<1>3. WindowStartingOn(r, day, z) =
        IF WeekdayOf(D) \in r.days /\ e > s THEN {[start |-> s, end |-> e]} ELSE {}
  BY WindowIs
<1>4. OpenOn(r, D, z, t) <=> WeekdayOf(D) \in r.days /\ s <= t /\ t < e
  BY DEF OpenOn
<1> HIDE DEF s, e
<1>5. s <= t /\ t < e => e > s
  BY <1>2
<1>6. Within([start |-> s, end |-> e], t) <=> s <= t /\ t < e
  BY DEF Within
<1> QED
  BY <1>3, <1>4, <1>5, <1>6

LEMMA CoversIs ==
    ASSUME NEW z, Plain(z), NEW r \in Restriction, NEW t \in Int, NEW D,
           D = DayOf(Local(t, z))
    PROVE  RestrictionCovers(r, t, z) <=> OpenOn(r, D - 1, z, t) \/ OpenOn(r, D, z, t)
<1>1. D \in Int
  BY LocalType DEF Plain
<1>2. ASSUME NEW n \in {-1, 0}
      PROVE  (\E w \in WindowStartingOn(r, AddDate(t, n, z), z) : Within(w, t))
                 <=> OpenOn(r, D + n, z, t)
  <2>1. AddDate(t, n, z) \in Int /\ DayOf(Local(AddDate(t, n, z), z)) = D + n
    BY AddDateMoves
  <2> QED
    BY <2>1, WithinWindow
<1>3. D + (-1) = D - 1 /\ D + 0 = D
  BY <1>1
<1>4. RestrictionCovers(r, t, z) <=> OpenOn(r, D + (-1), z, t) \/ OpenOn(r, D + 0, z, t)
  BY <1>2 DEF RestrictionCovers
<1> QED
  BY <1>3, <1>4

(* Where dates never go back no other window can be open.                  *)
LEMMA OpenDays ==
    ASSUME NEW z, Plain(z), RepeatsByDay(z), NEW r \in Restriction, NEW t \in Int,
           NEW D \in Int, OpenOn(r, D, z, t)
    PROVE  DayOf(Local(t, z)) \in {D, D + 1}
<1> DEFINE v == D * DayLength + r.start
           w == (IF CrossesMidnight(r) THEN D + 1 ELSE D) * DayLength + r.end
           today == DayOf(Local(t, z))
<1>1. z \in Zone /\ Local(t, z) \in Int /\ today \in Int
  BY LocalType DEF Plain
<1>2. r.start \in 0..47 /\ r.end \in 0..47
  BY DEF Restriction, TimeOfDay, DayLength, Hour
<1>3. /\ v \in Int /\ 48 * D <= v /\ v < 48 * D + 48
      /\ w \in Int /\ w < 48 * D + 96
  BY <1>2 DEF DayLength, Hour
<1>4. Reached(v, z) <= t /\ t < Reached(w, z)
  BY DEF OpenOn, Opens, Closes
<1> HIDE DEF v, w
<1>5. D <= today
  <2>1. DayOf(Local(Reached(v, z), z)) = DayOf(v) /\ DayOf(v) = D
    BY <1>3, ReachedOnItsDay, DayIs
  <2>2. Reached(v, z) \in Int
    BY <1>1, <1>3, ReachedType
  <2> QED
    BY <1>1, <1>4, <2>1, <2>2, DatesInOrder
<1>6. today < D + 2
  <2>1. Reached(w, z) \in Int
    BY <1>1, <1>3, ReachedType
  <2>2. ~(w <= Local(t, z))
    BY <1>1, <1>3, <1>4, <2>1, ShownIsReached
  <2>3. 48 * today <= Local(t, z)
    BY <1>1, DayBounds
  <2> HIDE DEF today
  <2> QED
    BY <1>1, <1>3, <2>2, <2>3
<1> HIDE DEF today
<1>7. today \in {D, D + 1}
  BY <1>1, <1>5, <1>6
<1> QED
  BY <1>7 DEF today

LEMMA CoversIsAny ==
    ASSUME NEW z, Plain(z), RepeatsByDay(z), NEW r \in Restriction, NEW t \in Int
    PROVE  RestrictionCovers(r, t, z) <=> \E D \in Int : OpenOn(r, D, z, t)
<1> DEFINE today == DayOf(Local(t, z))
<1>1. today \in Int
  BY LocalType DEF Plain
<1>2. RestrictionCovers(r, t, z) <=> OpenOn(r, today - 1, z, t) \/ OpenOn(r, today, z, t)
  BY CoversIs
<1>3. ASSUME NEW D \in Int, OpenOn(r, D, z, t)
      PROVE  D \in {today - 1, today}
  <2>1. today \in {D, D + 1}
    BY <1>3, OpenDays
  <2> HIDE DEF today
  <2> QED
    BY <1>1, <2>1
<1> HIDE DEF today
<1>4. today - 1 \in Int
  BY <1>1
<1> QED
  BY <1>1, <1>2, <1>3, <1>4

(* By the local clock: where an instant is shown once, what has been        *)
(* reached is what is shown.                                               *)
LEMMA HoursByClock ==
    ASSUME NEW z, Plain(z), NEW r \in Restriction, NEW t \in Int, ShownOnce(t, z)
    PROVE  LET w == Local(t, z)
               time == w % DayLength
               On(day) == WeekdayOf(day) \in r.days
               open == IF CrossesMidnight(r)
                       THEN \/ On(DayOf(w)) /\ r.start <= time
                            \/ On(DayOf(w) - 1) /\ time < r.end
                       ELSE On(DayOf(w)) /\ r.start <= time /\ time < r.end
           IN  RestrictionCovers(r, t, z) <=> open
<1> DEFINE w == Local(t, z)
           time == w % DayLength
           On(day) == WeekdayOf(day) \in r.days
           D == DayOf(w)
           first(d) == d * DayLength + r.start
           last(d) == (IF CrossesMidnight(r) THEN d + 1 ELSE d) * DayLength + r.end
<1>1. z \in Zone /\ w \in Int /\ D \in Int
  BY LocalType DEF Plain
<1>2. time = w - 48 * D /\ time \in 0..47
  BY <1>1, TimeOf
<1>3. r.start \in 0..47 /\ r.end \in 0..47
  BY DEF Restriction, TimeOfDay, DayLength, Hour
<1>4. ASSUME NEW v \in Int
      PROVE  Reached(v, z) \in Int /\ (Reached(v, z) <= t <=> v <= w)
  BY <1>1, ReachedType, ShownIsReached, ReachedIsShownOnce
<1>5. ASSUME NEW d \in Int
      PROVE  OpenOn(r, d, z, t) <=> On(d) /\ first(d) <= w /\ w < last(d)
  <2>1. first(d) \in Int /\ last(d) \in Int
    BY <1>1, WindowTypes
  <2>2. /\ OpenOn(r, d, z, t) <=> On(d) /\ Reached(first(d), z) <= t
                                    /\ t < Reached(last(d), z)
    BY DEF OpenOn, Opens, Closes
  <2> HIDE DEF w, first, last, On
  <2>3. Reached(first(d), z) <= t <=> first(d) <= w
    BY <1>4, <2>1
  <2>4. Reached(last(d), z) \in Int /\ (Reached(last(d), z) <= t <=> last(d) <= w)
    BY <1>4, <2>1
  <2>5. t < Reached(last(d), z) <=> w < last(d)
    BY <1>1, <2>1, <2>4
  <2> QED
    BY <2>2, <2>3, <2>5
<1>6. RestrictionCovers(r, t, z) <=> OpenOn(r, D - 1, z, t) \/ OpenOn(r, D, z, t)
  BY CoversIs
<1> HIDE DEF w, time, D, On
<1>7. D - 1 \in Int
  BY <1>1
<1>8. CASE CrossesMidnight(r)
  <2>1. /\ first(D) = 48 * D + r.start /\ last(D) = 48 * D + 48 + r.end
        /\ first(D - 1) = 48 * D - 48 + r.start /\ last(D - 1) = 48 * D + r.end
    BY <1>1, <1>3, <1>8 DEF DayLength, Hour
  <2>2. /\ first(D) <= w <=> r.start <= time
        /\ w < last(D)
        /\ first(D - 1) <= w
        /\ w < last(D - 1) <=> time < r.end
    BY <1>1, <1>2, <1>3, <2>1
  <2> HIDE DEF first, last
  <2>3. RestrictionCovers(r, t, z) <=> \/ On(D) /\ r.start <= time
                                       \/ On(D - 1) /\ time < r.end
    BY <1>1, <1>5, <1>6, <1>7, <2>2
  <2> QED
    BY <1>8, <2>3 DEF w, time, D, On
<1>9. CASE ~CrossesMidnight(r)
  <2>1. /\ first(D) = 48 * D + r.start /\ last(D) = 48 * D + r.end
        /\ last(D - 1) = 48 * D - 48 + r.end
    BY <1>1, <1>3, <1>9 DEF DayLength, Hour
  <2>2. /\ first(D) <= w <=> r.start <= time
        /\ ~(w < last(D - 1))
        /\ w < last(D) <=> time < r.end
    BY <1>1, <1>2, <1>3, <2>1
  <2> HIDE DEF first, last
  <2>3. RestrictionCovers(r, t, z) <=> On(D) /\ r.start <= time /\ time < r.end
    BY <1>1, <1>5, <1>6, <1>7, <2>2
  <2> QED
    BY <1>9, <2>3 DEF w, time, D, On
<1> QED
  BY <1>8, <1>9

-----------------------------------------------------------------------------
(* The loops that collect handoffs and days up to a limit.                 *)

Steps(step) == step \in [Int -> Int] /\ \A c \in Int : step[c] > c

LEMMA CollectExists ==
    ASSUME NEW step, Steps(step), NEW limit \in Int
    PROVE  \E f : f = [c \in Int |-> IF c < limit THEN {c} \cup f[step[c]] ELSE {}]
<1> DEFINE Closed(S, c) == /\ c < limit => c \in S
                           /\ \A x \in S : step[x] < limit => step[x] \in S
           R(c) == {x \in Int : \A S \in SUBSET Int : Closed(S, c) => x \in S}
           g == [c \in Int |-> R(c)]
<1>1. step \in [Int -> Int]
  BY DEF Steps
<1>2. ASSUME NEW c \in Int, ~(c < limit)
      PROVE  R(c) = {}
  <2>1. Closed({}, c) /\ {} \in SUBSET Int
    BY <1>2
  <2> HIDE DEF Closed
  <2>2. \A x \in R(c) : x \in {}
    BY <2>1
  <2> QED
    BY <2>2
<1>3. ASSUME NEW c \in Int, c < limit
      PROVE  R(c) = {c} \cup R(step[c])
  <2>1. step[c] \in Int
    BY <1>1
  <2>2. c \in R(c)
    BY <1>3
  <2>3. ASSUME NEW x \in R(step[c]) PROVE x \in R(c)
    <3>1. ASSUME NEW S \in SUBSET Int, Closed(S, c) PROVE Closed(S, step[c])
      BY <1>3, <3>1
    <3> HIDE DEF Closed
    <3> QED
      BY <2>3, <3>1
  <2>4. ASSUME NEW x \in R(c), x # c PROVE x \in R(step[c])
    <3>1. ASSUME NEW S \in SUBSET Int, Closed(S, step[c])
          PROVE  Closed(S \cup {c}, c) /\ S \cup {c} \in SUBSET Int
      BY <1>1, <3>1
    <3> HIDE DEF Closed
    <3>2. ASSUME NEW S \in SUBSET Int, Closed(S, step[c]) PROVE x \in S
      <4>1. x \in S \cup {c}
        BY <2>4, <3>1, <3>2
      <4> QED
        BY <2>4, <4>1
    <3>3. x \in Int
      BY <2>4
    <3> QED
      BY <3>2, <3>3
  <2> HIDE DEF R
  <2> QED
    BY <2>2, <2>3, <2>4
<1> HIDE DEF R
<1>4. \A c \in Int : g[c] = IF c < limit THEN {c} \cup g[step[c]] ELSE {}
  BY <1>1, <1>2, <1>3
<1>5. g = [c \in Int |-> IF c < limit THEN {c} \cup g[step[c]] ELSE {}]
  BY <1>4
<1> QED
  BY <1>5

(* What they collect lies between the first and the limit, and holds with  *)
(* each instant the one it leads to.                                       *)
LEMMA Collected ==
    ASSUME NEW step, Steps(step), NEW limit \in Int, NEW f,
           f = [c \in Int |-> IF c < limit THEN {c} \cup f[step[c]] ELSE {}],
           NEW c \in Int
    PROVE  /\ \A x \in f[c] : x \in Int /\ c <= x /\ x < limit
           /\ c < limit => c \in f[c]
           /\ \A x \in f[c] : step[x] < limit => step[x] \in f[c]
<1> DEFINE Good(d) == /\ \A x \in f[d] : x \in Int /\ d <= x /\ x < limit
                      /\ \A x \in f[d] : step[x] < limit => step[x] \in f[d]
           bad == {limit - d : d \in {x \in Int : x < limit /\ ~Good(x)}}
<1>1. \A d \in Int : step[d] \in Int /\ step[d] > d
  BY DEF Steps
<1>2. \A d \in Int : f[d] = IF d < limit THEN {d} \cup f[step[d]] ELSE {}
  OBVIOUS
<1>3. \A d \in Int : ~(d < limit) => Good(d)
  BY <1>2
<1>4. bad = {}
  <2> SUFFICES ASSUME bad # {} PROVE FALSE
    OBVIOUS
  <2>1. bad \subseteq Nat
    <3> HIDE DEF Good
    <3>1. \A x \in Int : x < limit => limit - x \in Nat
      OBVIOUS
    <3> QED
      BY <3>1
  <2>2. PICK n \in bad : \A m \in bad : n <= m
    <3> HIDE DEF bad
    <3> QED
      BY <2>1, Smallest
  <2>3. PICK d \in Int : d < limit /\ ~Good(d) /\ n = limit - d
    <3> HIDE DEF Good
    <3> QED
      BY <2>2
  <2>4. Good(step[d])
    <3> DEFINE e == step[d]
    <3>1. e \in Int /\ e > d
      BY <1>1
    <3> HIDE DEF Good, e
    <3>2. SUFFICES ASSUME ~Good(e) PROVE FALSE
      BY DEF e
    <3>3. e < limit
      BY <1>3, <3>1, <3>2
    <3>4. limit - e \in bad
      BY <3>1, <3>2, <3>3
    <3>5. n <= limit - e
      <4> HIDE DEF bad
      <4> QED
        BY <2>2, <3>4
    <3> QED
      BY <2>3, <3>1, <3>5
  <2>5. f[d] = {d} \cup f[step[d]] /\ step[d] \in Int /\ step[d] > d
    BY <1>1, <1>2, <2>3
  <2>6. step[d] < limit => step[d] \in f[step[d]]
    BY <1>2, <2>5
  <2>7. \A x \in f[d] : x \in Int /\ d <= x /\ x < limit
    <3> DEFINE e == step[d]
    <3>1. \A x \in f[e] : x \in Int /\ e <= x /\ x < limit
      BY <2>4
    <3> HIDE DEF e
    <3>2. f[d] = {d} \cup f[e] /\ e \in Int /\ e > d
      BY <2>5 DEF e
    <3> QED
      BY <2>3, <3>1, <3>2
  <2>8. \A x \in f[d] : step[x] < limit => step[x] \in f[d]
    BY <2>4, <2>5, <2>6
  <2> QED
    BY <2>3, <2>7, <2>8
<1>5. Good(c)
  <2> HIDE DEF Good
  <2>1. SUFFICES ASSUME ~Good(c) PROVE FALSE
    OBVIOUS
  <2>2. limit - c \in bad
    BY <1>3, <2>1
  <2> QED
    BY <1>4, <2>2
<1>6. c < limit => c \in f[c]
  BY <1>2
<1> QED
  BY <1>5, <1>6

-----------------------------------------------------------------------------
(* Boundaries.                                                             *)

(* Every handoff in (a, b] is a boundary.                                  *)
LEMMA HandoffsCollected ==
    ASSUME NEW l, Rotates(l), NEW a \in Int, NEW b \in Int, NEW f,
           f = [h \in Int |-> IF h > b THEN {} ELSE {h} \cup f[NextHandoff(l, h)]]
    PROVE  /\ \A x \in f[NextHandoff(l, a)] : x \in Int /\ a < x /\ x <= b
           /\ \A h \in HandoffsOf(l) : a < h /\ h <= b => h \in f[NextHandoff(l, a)]
<1> DEFINE step == [c \in Int |-> NextHandoff(l, c)]
           first == NextHandoff(l, a)
           F == f[first]
<1>1. Steps(step)
  BY NextIs DEF Steps
<1>2. f = [c \in Int |-> IF c < b + 1 THEN {c} \cup f[step[c]] ELSE {}]
  <2>1. \A c \in Int : c > b <=> ~(c < b + 1)
    OBVIOUS
  <2>2. \A c \in Int : f[c] = IF c < b + 1 THEN {c} \cup f[step[c]] ELSE {}
    BY <2>1
  <2> QED
    BY <2>2
<1>3. first \in Int /\ first > a /\ \A h \in HandoffsOf(l) : h > a => first <= h
  BY NextIs
<1>4. \A x \in Int : step[x] = NextHandoff(l, x)
  OBVIOUS
<1> HIDE DEF step, first
<1>5. /\ \A x \in F : x \in Int /\ first <= x /\ x < b + 1
      /\ first < b + 1 => first \in F
      /\ \A x \in F : step[x] < b + 1 => step[x] \in F
  BY <1>1, <1>2, <1>3, Collected
<1> HIDE DEF F
<1>6. \A x \in F : x \in Int /\ a < x /\ x <= b
  BY <1>3, <1>5
<1>7. ASSUME NEW h \in HandoffsOf(l), a < h, h <= b, h \notin F
      PROVE  FALSE
  <2>1. h \in Int
    BY HandoffTypes
  <2> DEFINE S == {x \in F : x < h}
  <2>2. first \in S
    <3>1. first <= h
      BY <1>3, <1>7
    <3>2. first < b + 1
      BY <1>3, <1>7, <2>1, <3>1
    <3> QED
      BY <1>3, <1>5, <1>7, <2>1, <3>1, <3>2
  <2>3. S \subseteq Int /\ \A x \in S : x <= h
    BY <1>5, <2>1
  <2> DEFINE x == Max(S)
  <2>4. x \in S /\ x \in Int /\ \A y \in S : y <= x
    <3> HIDE DEF S
    <3> QED
      BY <2>1, <2>2, <2>3, GreatestOf
  <2> HIDE DEF x
  <2>5. /\ step[x] \in Int /\ step[x] > x /\ step[x] <= h
    BY <1>4, <1>7, <2>4, NextIs
  <2>6. step[x] \in F
    BY <1>5, <1>7, <2>1, <2>4, <2>5
  <2>7. step[x] \in S
    BY <1>7, <2>1, <2>5, <2>6
  <2> HIDE DEF S
  <2>8. step[x] <= x
    BY <2>4, <2>7
  <2> QED
    BY <2>4, <2>5, <2>8
<1> QED
  BY <1>6, <1>7 DEF F, first

LEMMA DaysExist ==
    ASSUME NEW z, Plain(z), NEW limit \in Int
    PROVE  \E f : f = [d \in Int |-> IF d < limit THEN {d} \cup f[AddDate(d, 1, z)]
                                   ELSE {}]
<1> DEFINE step == [c \in Int |-> AddDate(c, 1, z)]
<1>1. Steps(step)
  BY AddDateMoves, NextDayIsLater DEF Steps
<1>2. \A x \in Int : step[x] = AddDate(x, 1, z)
  OBVIOUS
<1> HIDE DEF step
<1>3. PICK f : f = [c \in Int |-> IF c < limit THEN {c} \cup f[step[c]] ELSE {}]
  BY <1>1, CollectExists
<1>4. [c \in Int |-> IF c < limit THEN {c} \cup f[step[c]] ELSE {}]
        = [d \in Int |-> IF d < limit THEN {d} \cup f[AddDate(d, 1, z)] ELSE {}]
  BY <1>2
<1> QED
  BY <1>3, <1>4

(* The days of the window of a restriction are walked one by one, from     *)
(* yesterday on.                                                           *)
LEMMA DaysCollected ==
    ASSUME NEW z, Plain(z), RepeatsByDay(z), NEW a \in Int, NEW b \in Int, a <= b, NEW f,
           f = [d \in Int |-> IF d < AddDate(b, 1, z) THEN {d} \cup f[AddDate(d, 1, z)]
                              ELSE {}]
    PROVE  /\ f[AddDate(a, -1, z)] \subseteq Int
           /\ \A D \in DayOf(Local(a, z)) - 1 .. DayOf(Local(b, z)) :
                 \E x \in f[AddDate(a, -1, z)] : DayOf(Local(x, z)) = D
<1> DEFINE step == [c \in Int |-> AddDate(c, 1, z)]
           first == AddDate(a, -1, z)
           limit == AddDate(b, 1, z)
           day(x) == DayOf(Local(x, z))
           F == f[first]
<1>1. z \in Zone /\ \A x \in Int : day(x) \in Int
  BY LocalType DEF Plain
<1>2. /\ first \in Int /\ day(first) = day(a) + (-1)
      /\ limit \in Int /\ day(limit) = day(b) + 1
  BY AddDateMoves
<1>3. \A x \in Int : step[x] = AddDate(x, 1, z) /\ step[x] \in Int /\ step[x] > x
                     /\ day(step[x]) = day(x) + 1
  BY AddDateMoves, NextDayIsLater
<1>4. Steps(step)
  BY <1>3 DEF Steps
<1>5. f = [c \in Int |-> IF c < limit THEN {c} \cup f[step[c]] ELSE {}]
  OBVIOUS
<1>6. \A x \in Int : day(x) <= day(b) => x < limit
  <2> SUFFICES ASSUME NEW x \in Int, day(x) <= day(b), ~(x < limit) PROVE FALSE
    OBVIOUS
  <2>1. limit <= x
    BY <1>2
  <2>2. day(limit) <= day(x)
    BY <1>1, <1>2, <2>1, DatesInOrder
  <2> HIDE DEF day, limit
  <2> QED
    BY <1>1, <1>2, <2>2
<1>7. day(a) <= day(b)
  BY <1>1, DatesInOrder
<1> HIDE DEF step, first, limit, day
<1>8. /\ \A x \in F : x \in Int /\ first <= x /\ x < limit
      /\ first < limit => first \in F
      /\ \A x \in F : step[x] < limit => step[x] \in F
  BY <1>2, <1>4, <1>5, Collected
<1>9. first \in F
  <2>1. day(first) <= day(b)
    BY <1>1, <1>2, <1>7
  <2> QED
    BY <1>2, <1>6, <1>8, <2>1
<1> HIDE DEF F
<1>10. \A D \in day(a) - 1 .. day(b) : \E x \in F : day(x) = D
  <2> DEFINE bad == {D - (day(a) - 1) : D \in
                      {E \in day(a) - 1 .. day(b) : ~\E x \in F : day(x) = E}}
  <2>1. bad \subseteq Nat
    BY <1>1
  <2>2. bad = {}
    <3> SUFFICES ASSUME bad # {} PROVE FALSE
      OBVIOUS
    <3>1. PICK n \in bad : \A m \in bad : n <= m
      <4> HIDE DEF bad
      <4> QED
        BY <2>1, Smallest
    <3>2. PICK D \in day(a) - 1 .. day(b) :
            ~(\E x \in F : day(x) = D) /\ n = D - (day(a) - 1)
      BY <3>1
    <3>3. D # day(a) - 1
      BY <1>1, <1>2, <1>9, <3>2
    <3>4. D - 1 \in day(a) - 1 .. day(b)
      BY <1>1, <3>2, <3>3
    <3>5. PICK x \in F : day(x) = D - 1
      <4>1. SUFFICES ASSUME ~\E x \in F : day(x) = D - 1 PROVE FALSE
        OBVIOUS
      <4>2. (D - 1) - (day(a) - 1) \in bad
        BY <3>4, <4>1
      <4>3. n <= (D - 1) - (day(a) - 1)
        <5> HIDE DEF bad
        <5> QED
          BY <3>1, <4>2
      <4> QED
        BY <1>1, <3>2, <4>3
    <3>6. x \in Int /\ step[x] \in Int /\ day(step[x]) = D
      <4>1. x \in Int
        BY <1>8
      <4>2. step[x] \in Int /\ day(step[x]) = day(x) + 1
        BY <1>3, <4>1
      <4> QED
        BY <1>1, <3>2, <3>5, <4>1, <4>2
    <3>7. step[x] < limit
      BY <1>1, <1>6, <3>2, <3>6
    <3>8. step[x] \in F
      BY <1>8, <3>7
    <3> QED
      BY <3>2, <3>6, <3>8
  <2>3. \A D \in day(a) - 1 .. day(b) :
           ~(\E x \in F : day(x) = D) => D - (day(a) - 1) \in bad
    OBVIOUS
  <2> HIDE DEF bad
  <2> QED
    BY <2>2, <2>3
<1> QED
  BY <1>8, <1>10 DEF F, first, day

(* Both edges of a window that is open at some instant of [a, b] are       *)
(* boundaries, as far as they lie in (a, b].                               *)
LEMMA EdgesListed ==
    ASSUME NEW z, Plain(z), RepeatsByDay(z), NEW r \in Restriction,
           NEW a \in Int, NEW b \in Int, NEW u \in Int, a <= u, u <= b,
           NEW D \in Int, OpenOn(r, D, z, u),
           NEW e \in {Opens(r, D, z), Closes(r, D, z)}, a < e, e <= b
    PROVE  e \in RestrictionBoundaries(r, a, b, z)
<1> DEFINE limit == AddDate(b, 1, z)
           first == AddDate(a, -1, z)
           Days[d \in Int] == IF d < limit THEN {d} \cup Days[AddDate(d, 1, z)] ELSE {}
           windows == UNION {WindowStartingOn(r, d, z) : d \in Days[first]}
           edges == UNION {{w.start, w.end} : w \in windows}
<1>1. z \in Zone /\ a <= b /\ limit \in Int
  BY AddDateMoves DEF Plain
<1>2. Days = [d \in Int |-> IF d < limit THEN {d} \cup Days[AddDate(d, 1, z)] ELSE {}]
  <2>1. limit \in Int
    BY <1>1
  <2>2. \A x \in Int : \E f : f = [d \in Int |-> IF d < x THEN {d} \cup f[AddDate(d, 1, z)]
                                               ELSE {}]
    BY DaysExist
  <2>3. \E f : f = [d \in Int |-> IF d < limit THEN {d} \cup f[AddDate(d, 1, z)] ELSE {}]
    BY <2>1, <2>2, Zenon
  <2> QED
    BY <2>3
<1> HIDE DEF Days
<1>3. /\ Days[first] \subseteq Int
      /\ \A x \in DayOf(Local(a, z)) - 1 .. DayOf(Local(b, z)) :
            \E d \in Days[first] : DayOf(Local(d, z)) = x
  BY <1>1, <1>2, DaysCollected
<1> HIDE DEF first
<1>4. D \in DayOf(Local(a, z)) - 1 .. DayOf(Local(b, z))
  <2>1. DayOf(Local(u, z)) \in {D, D + 1}
    BY OpenDays
  <2>2. DayOf(Local(a, z)) <= DayOf(Local(u, z)) /\ DayOf(Local(u, z)) <= DayOf(Local(b, z))
    BY <1>1, DatesInOrder
  <2>3. DayOf(Local(a, z)) \in Int /\ DayOf(Local(b, z)) \in Int
    BY <1>1, LocalType
  <2> QED
    BY <2>1, <2>2, <2>3
<1>5. PICK d \in Days[first] : DayOf(Local(d, z)) = D
  BY <1>3, <1>4
<1> DEFINE w == [start |-> Opens(r, D, z), end |-> Closes(r, D, z)]
<1>6. WindowStartingOn(r, d, z) = {w}
  <2>1. d \in Int
    BY <1>3
  <2>2. WeekdayOf(D) \in r.days /\ Closes(r, D, z) > Opens(r, D, z)
    BY <1>1, WindowTypes DEF OpenOn
  <2> QED
    BY <1>5, <2>1, <2>2, WindowIs
<1>7. w \in windows
  BY <1>5, <1>6
<1>8. e \in {w.start, w.end}
  OBVIOUS
<1> HIDE DEF w, windows
<1>9. e \in edges
  BY <1>7, <1>8
<1>10. RestrictionBoundaries(r, a, b, z) = {x \in edges : a < x /\ x <= b}
  BY DEF RestrictionBoundaries, Days, windows, first
<1> HIDE DEF edges
<1> QED
  BY <1>9, <1>10

LEMMA RestrictionBoundaryTypes ==
    ASSUME NEW z, Plain(z), RepeatsByDay(z), NEW r \in Restriction,
           NEW a \in Int, NEW b \in Int, a <= b
    PROVE  \A e \in RestrictionBoundaries(r, a, b, z) : e \in Int /\ a < e /\ e <= b
<1> DEFINE limit == AddDate(b, 1, z)
           first == AddDate(a, -1, z)
           Days[d \in Int] == IF d < limit THEN {d} \cup Days[AddDate(d, 1, z)] ELSE {}
           windows == UNION {WindowStartingOn(r, d, z) : d \in Days[first]}
           edges == UNION {{w.start, w.end} : w \in windows}
<1>1. z \in Zone /\ limit \in Int
  BY AddDateMoves DEF Plain
<1>2. Days = [d \in Int |-> IF d < limit THEN {d} \cup Days[AddDate(d, 1, z)] ELSE {}]
  <2>1. limit \in Int
    BY <1>1
  <2>2. \A x \in Int : \E f : f = [d \in Int |-> IF d < x THEN {d} \cup f[AddDate(d, 1, z)]
                                               ELSE {}]
    BY DaysExist
  <2>3. \E f : f = [d \in Int |-> IF d < limit THEN {d} \cup f[AddDate(d, 1, z)] ELSE {}]
    BY <2>1, <2>2, Zenon
  <2> QED
    BY <2>3
<1> HIDE DEF Days
<1>3. Days[first] \subseteq Int
  BY <1>1, <1>2, DaysCollected
<1> HIDE DEF first
<1>4. \A w \in windows : w.start \in Int /\ w.end \in Int
  <2> SUFFICES ASSUME NEW d \in Days[first], NEW w \in WindowStartingOn(r, d, z)
               PROVE  w.start \in Int /\ w.end \in Int
    OBVIOUS
  <2> DEFINE D == DayOf(Local(d, z))
  <2>1. d \in Int /\ D \in Int
    BY <1>1, <1>3, LocalType
  <2>2. w = [start |-> Opens(r, D, z), end |-> Closes(r, D, z)]
    BY <2>1, WindowIs
  <2> HIDE DEF D
  <2> QED
    BY <1>1, <2>1, <2>2, WindowTypes
<1> HIDE DEF windows
<1>5. edges \subseteq Int
  BY <1>4
<1>6. RestrictionBoundaries(r, a, b, z) = {x \in edges : a < x /\ x <= b}
  BY DEF RestrictionBoundaries, Days, windows, first
<1> HIDE DEF edges
<1> QED
  BY <1>5, <1>6

(* Between two boundaries a restriction does not open or close.            *)
LEMMA CoversBetween ==
    ASSUME NEW z, Plain(z), RepeatsByDay(z), NEW r \in Restriction,
           NEW a \in Int, NEW b \in Int, NEW p \in Int, NEW t \in Int,
           a <= p, p <= t, t <= b,
           ~\E e \in RestrictionBoundaries(r, a, b, z) : p < e /\ e <= t
    PROVE  RestrictionCovers(r, p, z) <=> RestrictionCovers(r, t, z)
<1>1. z \in Zone /\ p <= b /\ a <= t
  BY DEF Plain
<1>2. ASSUME NEW D \in Int
      PROVE  OpenOn(r, D, z, p) <=> OpenOn(r, D, z, t)
  <2> DEFINE s == Opens(r, D, z)
             e == Closes(r, D, z)
  <2>1. s \in Int /\ e \in Int
    BY <1>1, WindowTypes
  <2>2. \A u \in Int : OpenOn(r, D, z, u) <=> WeekdayOf(D) \in r.days /\ s <= u /\ u < e
    BY DEF OpenOn
  <2>3. ASSUME NEW u \in {p, t}, OpenOn(r, D, z, u), NEW x \in {s, e}
        PROVE  ~(p < x /\ x <= t)
    <3>1. SUFFICES ASSUME p < x, x <= t PROVE FALSE
      OBVIOUS
    <3>2. x \in Int /\ a < x /\ x <= b /\ u \in Int /\ a <= u /\ u <= b
      <4> HIDE DEF s, e
      <4> QED
        BY <1>1, <2>1, <3>1
    <3>3. x \in RestrictionBoundaries(r, a, b, z)
      BY <2>3, <3>2, EdgesListed
    <3> QED
      BY <3>1, <3>3
  <2> HIDE DEF s, e
  <2>4. ASSUME OpenOn(r, D, z, p) PROVE OpenOn(r, D, z, t)
    <3>1. ~(p < e /\ e <= t)
      BY <2>3, <2>4
    <3> QED
      BY <2>1, <2>2, <2>4, <3>1
  <2>5. ASSUME OpenOn(r, D, z, t) PROVE OpenOn(r, D, z, p)
    <3>1. ~(p < s /\ s <= t)
      BY <2>3, <2>5
    <3> QED
      BY <2>1, <2>2, <2>5, <3>1
  <2> QED
    BY <2>4, <2>5
<1> QED
  BY <1>2, CoversIsAny

(* A layer of the running process, in a zone that keeps its dates.         *)
Sound(l) ==
    /\ l.rotation \in {"daily", "weekly", ""}
    /\ l.rotation # "" => Rotates(l) /\ l.anchor \in HandoffsOf(l)
    /\ Len(l.participants) \in Nat \ {0}
    /\ Plain(l.zone)
    /\ l.restriction \subseteq Restriction

LEMMA HandoffBoundaries ==
    ASSUME NEW l, Rotates(l), NEW a \in Int, NEW b \in Int
    PROVE  LET Handoffs[h \in Int] ==
                   IF h > b THEN {} ELSE {h} \cup Handoffs[NextHandoff(l, h)]
           IN  /\ \A x \in Handoffs[NextHandoff(l, a)] : x \in Int /\ a < x /\ x <= b
               /\ \A h \in HandoffsOf(l) :
                     a < h /\ h <= b => h \in Handoffs[NextHandoff(l, a)]
<1> DEFINE Handoffs[h \in Int] ==
               IF h > b THEN {} ELSE {h} \cup Handoffs[NextHandoff(l, h)]
<1>1. \E f : f = [h \in Int |-> IF h > b THEN {} ELSE {h} \cup f[NextHandoff(l, h)]]
  <2> DEFINE step == [c \in Int |-> NextHandoff(l, c)]
             limit == b + 1
  <2>1. Steps(step)
    BY NextIs DEF Steps
  <2>2. \A x \in Int : step[x] = NextHandoff(l, x) /\ (x > b <=> ~(x < limit))
    OBVIOUS
  <2>3. limit \in Int
    OBVIOUS
  <2> HIDE DEF step, limit
  <2>4. PICK f : f = [c \in Int |-> IF c < limit THEN {c} \cup f[step[c]] ELSE {}]
    <3>1. \A x \in Int :
            \E f : f = [c \in Int |-> IF c < x THEN {c} \cup f[step[c]] ELSE {}]
      BY <2>1, CollectExists
    <3> QED
      BY <2>3, <3>1, Zenon
  <2>5. [c \in Int |-> IF c < limit THEN {c} \cup f[step[c]] ELSE {}]
          = [h \in Int |-> IF h > b THEN {} ELSE {h} \cup f[NextHandoff(l, h)]]
    BY <2>2
  <2> QED
    BY <2>4, <2>5
<1>2. Handoffs = [h \in Int |-> IF h > b THEN {} ELSE {h} \cup Handoffs[NextHandoff(l, h)]]
  BY <1>1
<1> HIDE DEF Handoffs
<1>3. /\ \A x \in Handoffs[NextHandoff(l, a)] : x \in Int /\ a < x /\ x <= b
      /\ \A h \in HandoffsOf(l) : a < h /\ h <= b => h \in Handoffs[NextHandoff(l, a)]
  BY <1>2, HandoffsCollected
<1> QED
  BY <1>3 DEF Handoffs

LEMMA LayerBoundariesAre ==
    ASSUME NEW l, Sound(l), RepeatsByDay(l.zone), NEW a \in Int, NEW b \in Int, a <= b
    PROVE  /\ \A e \in LayerBoundaries(l, a, b) : e \in Int /\ a < e /\ e <= b
           /\ \A r \in l.restriction :
                 RestrictionBoundaries(r, a, b, l.zone) \subseteq LayerBoundaries(l, a, b)
           /\ Rotates(l) =>
                 \A h \in HandoffsOf(l) : a < h /\ h <= b => h \in LayerBoundaries(l, a, b)
<1> DEFINE Handoffs[h \in Int] ==
               IF h > b THEN {} ELSE {h} \cup Handoffs[NextHandoff(l, h)]
           F == Handoffs[NextHandoff(l, a)]
           R == UNION {RestrictionBoundaries(r, a, b, l.zone) : r \in l.restriction}
<1>1. LayerBoundaries(l, a, b) = (IF l.rotation = "" THEN {} ELSE F) \cup R
  BY DEF LayerBoundaries
<1>2. Rotates(l) =>
        /\ \A x \in F : x \in Int /\ a < x /\ x <= b
        /\ \A h \in HandoffsOf(l) : a < h /\ h <= b => h \in F
  BY HandoffBoundaries
<1> HIDE DEF F
<1>3. \A r \in l.restriction : r \in Restriction
  BY DEF Sound
<1>4. \A e \in R : e \in Int /\ a < e /\ e <= b
  BY <1>3, RestrictionBoundaryTypes DEF Sound
<1> HIDE DEF R
<1>5. \/ LayerBoundaries(l, a, b) = R /\ ~Rotates(l)
      \/ LayerBoundaries(l, a, b) = F \cup R /\ Rotates(l)
  <2>1. CASE l.rotation = ""
    BY <1>1, <2>1, Zenon DEF Rotates
  <2>2. CASE l.rotation # ""
    BY <1>1, <2>2, Zenon DEF Sound
  <2> QED
    BY <2>1, <2>2, Zenon
<1>6. \A e \in LayerBoundaries(l, a, b) : e \in Int /\ a < e /\ e <= b
  BY <1>2, <1>4, <1>5
<1>7. \A r \in l.restriction :
         RestrictionBoundaries(r, a, b, l.zone) \subseteq LayerBoundaries(l, a, b)
  BY <1>5 DEF R
<1>8. Rotates(l) =>
         \A h \in HandoffsOf(l) : a < h /\ h <= b => h \in LayerBoundaries(l, a, b)
  BY <1>2, <1>5
<1> QED
  BY <1>6, <1>7, <1>8

LEMMA PrevBetween ==
    ASSUME NEW l, Sound(l), Rotates(l), RepeatsByDay(l.zone), NEW a \in Int, NEW b \in Int,
           NEW p \in Int, NEW t \in Int, a <= p, p <= t, t <= b,
           ~\E e \in LayerBoundaries(l, a, b) : p < e /\ e <= t
    PROVE  PrevHandoff(l, p) = PrevHandoff(l, t)
<1>0. a <= b
  OBVIOUS
<1> DEFINE last == PrevHandoff(l, p)
           latest == PrevHandoff(l, t)
<1>2. /\ last \in HandoffsOf(l) /\ last \in Int /\ last <= p
      /\ \A h \in HandoffsOf(l) : h <= p => h <= last
  BY PrevIs
<1>3. /\ latest \in HandoffsOf(l) /\ latest \in Int /\ latest <= t
      /\ \A h \in HandoffsOf(l) : h <= t => h <= latest
  BY PrevIs
<1> HIDE DEF last, latest
<1>4. last \in Int /\ last <= p /\ latest \in Int /\ latest <= t
  BY <1>2, <1>3
<1>5. ~(p < latest)
  <2> SUFFICES ASSUME p < latest PROVE FALSE
    OBVIOUS
  <2>1. a < latest /\ latest <= b
    BY <1>4
  <2>2. latest \in LayerBoundaries(l, a, b)
    BY <1>0, <1>3, <2>1, LayerBoundariesAre
  <2> QED
    BY <1>4, <2>2
<1>6. latest <= p /\ last <= t
  BY <1>4, <1>5
<1>7. last <= latest /\ latest <= last
  BY <1>2, <1>3, <1>6
<1>8. last = latest
  BY <1>4, <1>7
<1> QED
  BY <1>8 DEF last, latest

(* Between two boundaries a layer does not change its answer.              *)
LEMMA UserBetween ==
    ASSUME NEW l, Sound(l), RepeatsByDay(l.zone), NEW a \in Int, NEW b \in Int,
           NEW p \in Int, NEW t \in Int, a <= p, p <= t, t <= b,
           ~\E e \in LayerBoundaries(l, a, b) : p < e /\ e <= t
    PROVE  UserAt(l, p) = UserAt(l, t)
<1>1. a <= b
  OBVIOUS
<1>2. \A r \in l.restriction :
         RestrictionCovers(r, p, l.zone) <=> RestrictionCovers(r, t, l.zone)
  <2> SUFFICES ASSUME NEW r \in l.restriction
               PROVE  RestrictionCovers(r, p, l.zone) <=> RestrictionCovers(r, t, l.zone)
    OBVIOUS
  <2>1. r \in Restriction /\ Plain(l.zone)
    BY DEF Sound
  <2>2. ~\E e \in RestrictionBoundaries(r, a, b, l.zone) : p < e /\ e <= t
    BY <1>1, LayerBoundariesAre
  <2> QED
    BY <2>1, <2>2, CoversBetween
<1>3. Rotates(l) => PrevHandoff(l, p) = PrevHandoff(l, t)
  BY PrevBetween
<1>4. l.rotation # "" => Rotates(l)
  BY Zenon DEF Sound
<1> QED
  BY <1>2, <1>3, <1>4, Zenon DEF UserAt

(* So does the whole schedule with its overrides.                          *)
OverridesTyped ==
    \A i \in DOMAIN overrides : overrides[i].starts \in Int /\ overrides[i].ends \in Int

SoundSchedule(s) == \A i \in DOMAIN s : Sound(s[i]) /\ RepeatsByDay(s[i].zone)

LEMMA BoundariesAre ==
    ASSUME NEW s, SoundSchedule(s), OverridesTyped, NEW os \in SUBSET DOMAIN overrides,
           NEW a \in Int, NEW b \in Int, a <= b
    PROVE  /\ \A e \in Boundaries(s, os, a, b) : e \in Int /\ a <= e /\ e <= b
           /\ a \in Boundaries(s, os, a, b) /\ b \in Boundaries(s, os, a, b)
           /\ \A i \in DOMAIN s : LayerBoundaries(s[i], a, b) \subseteq Boundaries(s, os, a, b)
           /\ \A i \in os : \A e \in {overrides[i].starts, overrides[i].ends} :
                 a < e /\ e < b => e \in Boundaries(s, os, a, b)
<1> DEFINE changes == UNION {LayerBoundaries(s[i], a, b) : i \in DOMAIN s}
           edges == UNION {{overrides[i].starts, overrides[i].ends} : i \in os}
<1>1. Boundaries(s, os, a, b) = {a, b} \cup changes \cup {p \in edges : a < p /\ p < b}
  BY Zenon DEF Boundaries
<1>2. edges \subseteq Int
  BY DEF OverridesTyped
<1>3. \A e \in changes : e \in Int /\ a < e /\ e <= b
  BY LayerBoundariesAre DEF SoundSchedule
<1>4. \A i \in DOMAIN s : LayerBoundaries(s[i], a, b) \subseteq changes
  OBVIOUS
<1>5. \A i \in os : \A e \in {overrides[i].starts, overrides[i].ends} : e \in edges
  OBVIOUS
<1> HIDE DEF changes, edges
<1>6. \A e \in Boundaries(s, os, a, b) : e \in Int /\ a <= e /\ e <= b
  <2> SUFFICES ASSUME NEW e \in Boundaries(s, os, a, b)
               PROVE  e \in Int /\ a <= e /\ e <= b
    OBVIOUS
  <2>1. e \in {a, b} \/ e \in changes \/ (e \in edges /\ a < e /\ e < b)
    BY <1>1
  <2>2. CASE e \in {a, b}
    BY <2>2
  <2>3. CASE e \in changes
    BY <1>3, <2>3
  <2>4. CASE e \in edges /\ a < e /\ e < b
    BY <1>2, <2>4
  <2> QED
    BY <2>1, <2>2, <2>3, <2>4
<1>7. a \in Boundaries(s, os, a, b) /\ b \in Boundaries(s, os, a, b)
  BY <1>1
<1>8. \A i \in DOMAIN s : LayerBoundaries(s[i], a, b) \subseteq Boundaries(s, os, a, b)
  BY <1>1, <1>4
<1>9. \A i \in os : \A e \in {overrides[i].starts, overrides[i].ends} :
         a < e /\ e < b => e \in Boundaries(s, os, a, b)
  BY <1>1, <1>5
<1> QED
  BY <1>6, <1>7, <1>8, <1>9

LEMMA AnswerBetween ==
    ASSUME NEW s, SoundSchedule(s), OverridesTyped, NEW os \in SUBSET DOMAIN overrides,
           NEW a \in Int, NEW b \in Int, NEW p \in Int, NEW t \in Int,
           a <= p, p <= t, t < b,
           ~\E e \in Boundaries(s, os, a, b) : p < e /\ e <= t
    PROVE  At(s, os, p) = At(s, os, t)
<1>1. a <= b /\ t <= b
  OBVIOUS
<1>2. \A i \in DOMAIN s : UserAt(s[i], p) = UserAt(s[i], t)
  <2> SUFFICES ASSUME NEW i \in DOMAIN s PROVE UserAt(s[i], p) = UserAt(s[i], t)
    OBVIOUS
  <2>1. Sound(s[i]) /\ RepeatsByDay(s[i].zone)
    BY DEF SoundSchedule
  <2>2. ~\E e \in LayerBoundaries(s[i], a, b) : p < e /\ e <= t
    BY <1>1, BoundariesAre
  <2> QED
    BY <1>1, <2>1, <2>2, UserBetween
<1>3. LayersAt(s, p) = LayersAt(s, t)
  <2>1. {[layer |-> i, user |-> UserAt(s[i], p)] : i \in DOMAIN s}
          = {[layer |-> i, user |-> UserAt(s[i], t)] : i \in DOMAIN s}
    BY <1>2
  <2> QED
    BY <2>1, Zenon DEF LayersAt
<1>4. \A i \in os : overrides[i].starts <= p /\ p < overrides[i].ends
                       <=> overrides[i].starts <= t /\ t < overrides[i].ends
  <2> SUFFICES ASSUME NEW i \in os
               PROVE  overrides[i].starts <= p /\ p < overrides[i].ends
                         <=> overrides[i].starts <= t /\ t < overrides[i].ends
    OBVIOUS
  <2> DEFINE x == overrides[i].starts
             y == overrides[i].ends
  <2>1. x \in Int /\ y \in Int
    BY DEF OverridesTyped
  <2>2. \A e \in {x, y} : a < e /\ e < b => ~(p < e /\ e <= t)
    <3>1. \A e \in {x, y} : a < e /\ e < b => e \in Boundaries(s, os, a, b)
      BY <1>1, BoundariesAre
    <3> HIDE DEF x, y
    <3> QED
      BY <3>1
  <2> HIDE DEF x, y
  <2>3. ~(p < x /\ x <= t) /\ ~(p < y /\ y <= t)
    BY <2>1, <2>2
  <2>4. x <= p /\ p < y <=> x <= t /\ t < y
    BY <2>1, <2>3
  <2> QED
    BY <2>4 DEF x, y
<1>5. OverrideAt(os, p) = OverrideAt(os, t)
  <2>1. {i \in os : overrides[i].starts <= p /\ p < overrides[i].ends}
          = {i \in os : overrides[i].starts <= t /\ t < overrides[i].ends}
    BY <1>4
  <2> QED
    BY <2>1, Zenon DEF OverrideAt
<1> QED
  BY <1>3, <1>5 DEF At

-----------------------------------------------------------------------------
(* Stretches, spans and holes.                                             *)

(* Points of [a, b] between which an answer does not change.               *)
Chart(P, a, b, ans) ==
    /\ P \subseteq Int /\ a \in P /\ b \in P /\ a < b
    /\ \A q \in P : a <= q /\ q <= b
    /\ \A p \in Int : \A t \in Int :
          a <= p /\ p <= t /\ t < b /\ ~(\E e \in P : p < e /\ e <= t) => ans[p] = ans[t]

After(P, p) == Min({q \in P : q > p})
Piece(P, p, ans) == [start |-> p, end |-> After(P, p), user |-> ans[p]]
Pieces(P, ans) == {Piece(P, p, ans) : p \in P \ {Max(P)}}

LEMMA AfterIs ==
    ASSUME NEW P, NEW a, NEW b, NEW ans, Chart(P, a, b, ans), NEW p \in Int, p < b
    PROVE  /\ After(P, p) \in P /\ After(P, p) \in Int
           /\ p < After(P, p) /\ After(P, p) <= b
           /\ \A q \in P : q > p => After(P, p) <= q
<1> DEFINE S == {q \in P : q > p}
<1>1. S \subseteq Int /\ b \in S /\ \A q \in S : p <= q
  <2>1. P \subseteq Int /\ b \in P
    BY DEF Chart
  <2>2. b \in S
    BY <2>1
  <2>3. \A q \in S : q \in Int /\ p <= q
    BY <2>1
  <2> QED
    BY <2>2, <2>3
<1> HIDE DEF S
<1>2. Min(S) \in S /\ Min(S) \in Int /\ \A q \in S : Min(S) <= q
  BY <1>1, LeastOf
<1>3. \A q \in S : q \in P /\ q > p
  BY DEF S
<1>4. \A q \in P : q > p => q \in S
  BY DEF S
<1>5. After(P, p) = Min(S)
  BY DEF After, S
<1> QED
  BY <1>1, <1>2, <1>3, <1>4, <1>5

LEMMA PiecesAre ==
    ASSUME NEW P, NEW a, NEW b, NEW ans, Chart(P, a, b, ans)
    PROVE  /\ \A x \in Pieces(P, ans) : \E p \in P : p < b /\ x = Piece(P, p, ans)
           /\ \A p \in P : p < b => Piece(P, p, ans) \in Pieces(P, ans)
<1>1. P \subseteq Int /\ b \in P /\ \A q \in P : q <= b
  BY DEF Chart
<1>2. Max(P) = b
  BY <1>1, MaxIs
<1>3. \A p \in P : p # b <=> p < b
  BY <1>1
<1> QED
  BY <1>2, <1>3 DEF Pieces

(* The answer of a piece is that of each of its instants.                  *)
LEMMA PieceConstant ==
    ASSUME NEW P, NEW a, NEW b, NEW ans, Chart(P, a, b, ans), NEW p \in P, p < b,
           NEW t \in Int, p <= t, t < After(P, p)
    PROVE  ans[t] = ans[p]
<1>1. p \in Int /\ a <= p /\ b \in Int
  BY DEF Chart
<1>2. /\ After(P, p) \in Int /\ After(P, p) <= b
      /\ \A q \in P : q > p => After(P, p) <= q
  BY <1>1, AfterIs
<1>3. t < b
  BY <1>1, <1>2
<1>4. ~\E e \in P : p < e /\ e <= t
  <2> SUFFICES ASSUME NEW e \in P, p < e, e <= t PROVE FALSE
    OBVIOUS
  <2>1. e \in Int
    BY DEF Chart
  <2>2. After(P, p) <= e
    BY <1>2
  <2> QED
    BY <1>2, <2>1, <2>2
<1> QED
  BY <1>1, <1>3, <1>4 DEF Chart

LEMMA PieceAround ==
    ASSUME NEW P, NEW a, NEW b, NEW ans, Chart(P, a, b, ans), NEW t \in Int, a <= t, t < b
    PROVE  \E p \in P : p <= t /\ p < b /\ t < After(P, p) /\ ans[p] = ans[t]
<1> DEFINE S == {q \in P : q <= t}
           p == Max(S)
<1>1. S \subseteq Int /\ a \in S /\ \A q \in S : q <= t
  BY DEF Chart
<1>2. p \in S /\ p \in Int /\ \A q \in S : q <= p
  <2> HIDE DEF S
  <2> QED
    BY <1>1, GreatestOf
<1> HIDE DEF p
<1>3. p \in P /\ p <= t
  BY <1>2
<1>4. b \in Int
  BY DEF Chart
<1>5. p < b
  BY <1>2, <1>3, <1>4
<1>6. After(P, p) \in P /\ After(P, p) \in Int /\ p < After(P, p)
  BY <1>2, <1>5, AfterIs
<1>7. t < After(P, p)
  <2> SUFFICES ASSUME After(P, p) <= t PROVE FALSE
    BY <1>6
  <2>1. After(P, p) \in S
    BY <1>6
  <2> HIDE DEF S
  <2> QED
    BY <1>2, <1>6, <2>1
<1>8. ans[p] = ans[t]
  BY <1>3, <1>5, <1>7, PieceConstant
<1> QED
  BY <1>3, <1>5, <1>7, <1>8

(* A span is a run of one person that could not be longer.                 *)
Run(sp, a, b, ans) ==
    /\ sp = [start |-> sp.start, user |-> sp.user, end |-> sp.end]
    /\ sp.start \in Int /\ sp.end \in Int
    /\ a <= sp.start /\ sp.start < sp.end /\ sp.end <= b
    /\ sp.user # Nobody
    /\ \A t \in Int : sp.start <= t /\ t < sp.end => ans[t] = sp.user
    /\ sp.start = a \/ ans[sp.start - 1] # sp.user
    /\ sp.end = b \/ ans[sp.end] # sp.user

Follows(x, y) == x.end = y.start /\ x.user = y.user
Covered(P, ans) == {x \in Pieces(P, ans) : x.user # Nobody}
Firsts(P, ans) == {x \in Covered(P, ans) : ~\E y \in Covered(P, ans) : Follows(y, x)}
Lasts(P, ans) == {x \in Covered(P, ans) : ~\E y \in Covered(P, ans) : Follows(x, y)}
SpanFrom(P, ans, f) ==
    [start |-> f.start, user |-> f.user,
     end |-> Min({x.end : x \in {y \in Lasts(P, ans) : y.start >= f.start}})]

LEMMA JoinedIs ==
    ASSUME NEW P, NEW ans
    PROVE  Joined(Pieces(P, ans)) = {SpanFrom(P, ans, f) : f \in Firsts(P, ans)}
  BY Zenon DEF Joined, Covered, Firsts, Lasts, SpanFrom, Follows

LEMMA CoveredPieces ==
    ASSUME NEW P, NEW a, NEW b, NEW ans, Chart(P, a, b, ans)
    PROVE  /\ \A x \in Covered(P, ans) :
                 \E p \in P : p < b /\ x = Piece(P, p, ans) /\ ans[p] # Nobody
           /\ \A p \in P : p < b /\ ans[p] # Nobody => Piece(P, p, ans) \in Covered(P, ans)
<1>1. \A p \in P : Piece(P, p, ans).user = ans[p]
  BY DEF Piece
<1> QED
  BY <1>1, PiecesAre DEF Covered

(* From a first piece the run goes on to the last piece that follows.      *)
RunTo(P, b, ans, p, n) ==
    /\ p < n /\ n <= b
    /\ \A t \in Int : p <= t /\ t < n => ans[t] = ans[p]
    /\ n = b \/ ans[n] # ans[p]
    /\ n = Min({x.end : x \in {y \in Lasts(P, ans) : y.start >= p}})

LEMMA RunEnds ==
    ASSUME NEW P, NEW a, NEW b, NEW ans, Chart(P, a, b, ans), NEW p \in P, p < b,
           ans[p] # Nobody
    PROVE  \E n \in Int : RunTo(P, b, ans, p, n)
<1> DEFINE u == ans[p]
           Same(q) == \A t \in Int : p <= t /\ t < After(P, q) => ans[t] = u
           S == {q \in P : p <= q /\ q < b /\ Same(q)}
           m == Max(S)
           n == After(P, m)
<1>1. P \subseteq Int /\ p \in Int /\ b \in Int
  BY DEF Chart
<1>2. p \in S
  <2>1. Same(p)
    BY PieceConstant
  <2> QED
    BY <1>1, <2>1
<1>3. S \subseteq Int /\ \A q \in S : q <= b
  <2> HIDE DEF Same
  <2>1. \A q \in S : q \in Int /\ q <= b
    BY <1>1
  <2> QED
    BY <2>1
<1>4. m \in S /\ m \in Int /\ \A q \in S : q <= m
  <2> HIDE DEF S
  <2> QED
    BY <1>1, <1>2, <1>3, GreatestOf
<1> HIDE DEF m
<1>5. m \in P /\ p <= m /\ m < b /\ Same(m)
  BY <1>4
<1>6. n \in P /\ n \in Int /\ m < n /\ n <= b /\ \A q \in P : q > m => n <= q
  BY <1>4, <1>5, AfterIs
<1>7. ASSUME NEW q \in P, q < b, p <= q, Same(q) PROVE q <= m
  <2>1. q \in S
    BY <1>7
  <2> HIDE DEF S, Same
  <2> QED
    BY <1>4, <2>1
<1> HIDE DEF S
<1>8. \A t \in Int : p <= t /\ t < n => ans[t] = u
  BY <1>5
<1>9. n = b \/ ans[n] # u
  <2> SUFFICES ASSUME n < b, ans[n] = u PROVE FALSE
    BY <1>1, <1>6
  <2>1. Same(n)
    <3> SUFFICES ASSUME NEW t \in Int, p <= t, t < After(P, n) PROVE ans[t] = u
      OBVIOUS
    <3>1. CASE t < n
      BY <1>8, <3>1
    <3>2. CASE n <= t
      <4>1. ans[t] = ans[n]
        <5> HIDE DEF n
        <5> QED
          BY <1>6, <3>2, PieceConstant
      <4> QED
        BY <4>1
    <3> HIDE DEF n
    <3> QED
      BY <1>6, <3>1, <3>2
  <2> HIDE DEF Same, n
  <2>2. n <= m
    BY <1>1, <1>5, <1>6, <1>7, <2>1
  <2> QED
    BY <1>4, <1>6, <2>2
<1> DEFINE ends == {x.end : x \in {y \in Lasts(P, ans) : y.start >= p}}
<1>10. n \in ends
  <2> DEFINE y == Piece(P, m, ans)
  <2>1. y.start = m /\ y.end = n /\ y.user = ans[m]
    BY DEF Piece
  <2>2. ans[m] = u
    <3> HIDE DEF n
    <3> QED
      BY <1>4, <1>5, <1>6, <1>8
  <2>3. y \in Covered(P, ans)
    BY <1>5, <2>2, CoveredPieces
  <2>4. ASSUME NEW z \in Covered(P, ans), Follows(y, z) PROVE FALSE
    <3>1. PICK q \in P : q < b /\ z = Piece(P, q, ans)
      BY CoveredPieces
    <3>2. q = n /\ ans[q] = u
      BY <2>1, <2>2, <2>4, <3>1 DEF Follows, Piece
    <3> HIDE DEF n
    <3> QED
      BY <1>1, <1>6, <1>9, <3>1, <3>2
  <2>5. y \in Lasts(P, ans)
    BY <2>3, <2>4 DEF Lasts
  <2>6. y.start >= p
    BY <1>1, <1>4, <1>5, <2>1
  <2> HIDE DEF y, n
  <2> QED
    BY <2>1, <2>5, <2>6
<1>11. ASSUME NEW x \in Lasts(P, ans), x.start >= p
       PROVE  x.end \in Int /\ n <= x.end
  <2>1. x \in Covered(P, ans)
    BY DEF Lasts
  <2>2. PICK q \in P : q < b /\ x = Piece(P, q, ans)
    BY <2>1, CoveredPieces
  <2> DEFINE e == After(P, q)
  <2>3. x.start = q /\ x.end = e /\ x.user = ans[q] /\ q \in Int
    BY <1>1, <2>2 DEF Piece
  <2>4. e \in P /\ e \in Int /\ q < e
    BY <2>2, <2>3, AfterIs
  <2> HIDE DEF e, n
  <2>5. ASSUME e < n PROVE FALSE
    <3>1. e < b /\ p <= q /\ q < n /\ p <= e
      BY <1>1, <1>6, <1>11, <2>3, <2>4, <2>5
    <3>2. ans[q] = u /\ ans[e] = u
      BY <1>8, <2>3, <2>4, <2>5, <3>1
    <3>3. Piece(P, e, ans) \in Covered(P, ans)
      BY <2>4, <3>1, <3>2, CoveredPieces
    <3>4. Follows(x, Piece(P, e, ans))
      BY <2>3, <3>2 DEF Follows, Piece
    <3> QED
      BY <3>3, <3>4 DEF Lasts
  <2> QED
    BY <1>6, <2>3, <2>4, <2>5
<1>12. n = Min(ends)
  <2>1. ends \subseteq Int /\ \A e \in ends : n <= e
    BY <1>11
  <2> HIDE DEF ends, n
  <2> QED
    BY <1>10, <2>1, MinIs
<1> HIDE DEF n
<1>13. p < n
  BY <1>1, <1>4, <1>5, <1>6
<1> QED
  BY <1>6, <1>8, <1>9, <1>12, <1>13 DEF RunTo

LEMMA SpanIs ==
    ASSUME NEW P, NEW a, NEW b, NEW ans, Chart(P, a, b, ans), NEW f \in Firsts(P, ans)
    PROVE  Run(SpanFrom(P, ans, f), a, b, ans)
<1>1. f \in Covered(P, ans) /\ ~\E y \in Covered(P, ans) : Follows(y, f)
  BY DEF Firsts
<1>2. PICK p \in P : p < b /\ f = Piece(P, p, ans) /\ ans[p] # Nobody
  BY <1>1, CoveredPieces
<1>3. f.start = p /\ f.user = ans[p]
  BY <1>2 DEF Piece
<1>4. p \in Int /\ a \in Int /\ b \in Int /\ a <= p
  BY DEF Chart
<1>5. PICK n \in Int : RunTo(P, b, ans, p, n)
  BY <1>2, RunEnds
<1>6. SpanFrom(P, ans, f) = [start |-> p, user |-> ans[p], end |-> n]
  BY <1>3, <1>5 DEF SpanFrom, RunTo
<1>7. p = a \/ ans[p - 1] # ans[p]
  <2> SUFFICES ASSUME a < p, ans[p - 1] = ans[p] PROVE FALSE
    BY <1>4
  <2>1. p - 1 \in Int /\ a <= p - 1 /\ p - 1 < b
    BY <1>2, <1>4
  <2>2. PICK q \in P : q <= p - 1 /\ q < b /\ p - 1 < After(P, q) /\ ans[q] = ans[p - 1]
    BY <2>1, PieceAround
  <2>3. q \in Int
    BY DEF Chart
  <2>4. After(P, q) = p
    <3>1. After(P, q) \in Int /\ \A x \in P : x > q => After(P, q) <= x
      BY <2>2, <2>3, AfterIs
    <3>2. After(P, q) <= p
      BY <1>4, <2>2, <2>3, <3>1
    <3> QED
      BY <1>4, <2>2, <3>1, <3>2
  <2>5. Piece(P, q, ans) \in Covered(P, ans)
    BY <1>2, <2>2, CoveredPieces
  <2>6. Follows(Piece(P, q, ans), f)
    BY <1>3, <2>2, <2>4 DEF Follows, Piece
  <2> QED
    BY <1>1, <2>5, <2>6
<1> QED
  BY <1>2, <1>4, <1>5, <1>6, <1>7 DEF Run, RunTo

(* Everybody's instants are in a span.                                     *)
LEMMA SpanExists ==
    ASSUME NEW P, NEW a, NEW b, NEW ans, Chart(P, a, b, ans), NEW t \in Int, a <= t, t < b,
           ans[t] # Nobody
    PROVE  \E f \in Firsts(P, ans) :
              SpanFrom(P, ans, f).start <= t /\ t < SpanFrom(P, ans, f).end
<1> DEFINE u == ans[t]
           Same(q) == \A x \in Int : q <= x /\ x <= t => ans[x] = u
           S == {q \in P : q <= t /\ Same(q)}
           p == Min(S)
<1>1. P \subseteq Int /\ a \in Int /\ b \in Int /\ \A q \in P : a <= q
  BY DEF Chart
<1>2. S # {}
  <2>1. PICK q \in P : q <= t /\ q < b /\ t < After(P, q) /\ ans[q] = u
    BY PieceAround
  <2>2. q \in Int /\ After(P, q) \in Int
    BY <1>1, <2>1, AfterIs
  <2>3. Same(q)
    <3> SUFFICES ASSUME NEW x \in Int, q <= x, x <= t PROVE ans[x] = u
      OBVIOUS
    <3>1. x < After(P, q)
      BY <2>1, <2>2
    <3> QED
      BY <2>1, <3>1, PieceConstant
  <2> QED
    BY <2>1, <2>3
<1>3. S \subseteq Int /\ \A q \in S : a <= q
  BY <1>1
<1>4. p \in S /\ p \in Int /\ \A q \in S : p <= q
  <2> HIDE DEF S
  <2> QED
    BY <1>1, <1>2, <1>3, LeastOf
<1> HIDE DEF p
<1>5. p \in P /\ p <= t /\ Same(p)
  BY <1>4
<1>6. ASSUME NEW q \in P, q <= t, Same(q) PROVE p <= q
  <2>1. q \in S
    BY <1>6
  <2> HIDE DEF S, Same
  <2> QED
    BY <1>4, <2>1
<1> HIDE DEF S
<1>7. p < b /\ ans[p] = u
  <2>1. p < b
    BY <1>1, <1>4, <1>5
  <2>2. p <= p
    BY <1>4
  <2> QED
    BY <1>4, <1>5, <2>1, <2>2
<1> DEFINE f == Piece(P, p, ans)
<1>8. f \in Covered(P, ans) /\ f.start = p /\ f.user = u
  BY <1>5, <1>7, CoveredPieces DEF Piece
<1>9. ASSUME NEW y \in Covered(P, ans), Follows(y, f) PROVE FALSE
  <2>1. PICK q \in P : q < b /\ y = Piece(P, q, ans)
    BY CoveredPieces
  <2>2. After(P, q) = p /\ ans[q] = u /\ q \in Int
    BY <1>1, <1>8, <1>9, <2>1 DEF Follows, Piece
  <2>3. q < p
    BY <2>1, <2>2, AfterIs
  <2>4. Same(q)
    <3> SUFFICES ASSUME NEW x \in Int, q <= x, x <= t PROVE ans[x] = u
      OBVIOUS
    <3>1. CASE x < p
      BY <2>1, <2>2, <3>1, PieceConstant
    <3>2. CASE p <= x
      BY <1>5, <3>2
    <3> QED
      BY <1>4, <3>1, <3>2
  <2> HIDE DEF Same
  <2>5. q <= t
    BY <1>4, <1>5, <2>2, <2>3
  <2>6. p <= q
    BY <1>6, <2>4, <2>5
  <2> QED
    BY <1>4, <2>2, <2>3, <2>6
<1>10. f \in Firsts(P, ans)
  BY <1>8, <1>9 DEF Firsts
<1> DEFINE sp == SpanFrom(P, ans, f)
<1>11. Run(sp, a, b, ans)
  BY <1>10, SpanIs
<1>12. sp.start = p /\ sp.user = u
  BY <1>8 DEF SpanFrom
<1> HIDE DEF sp, f
<1>13. sp.end \in Int /\ p < sp.end /\ (sp.end = b \/ ans[sp.end] # u)
  BY <1>11, <1>12 DEF Run
<1>14. t < sp.end
  <2> SUFFICES ASSUME sp.end <= t PROVE FALSE
    BY <1>13
  <2>1. ans[sp.end] # u
    BY <1>1, <1>13
  <2>2. p <= sp.end
    BY <1>4, <1>13
  <2>3. ans[sp.end] = u
    BY <1>5, <1>13, <2>2
  <2> QED
    BY <2>1, <2>3
<1> QED
  BY <1>5, <1>10, <1>12, <1>14 DEF sp

(* Runs of a chart are apart, and those that touch are of two people.      *)
LEMMA RunsApart ==
    ASSUME NEW a \in Int, NEW b \in Int, NEW ans, NEW x, NEW y, Run(x, a, b, ans),
           Run(y, a, b, ans), NEW t \in Int, Within(x, t), Within(y, t)
    PROVE  x = y
<1>1. x.user = y.user
  BY DEF Run, Within
<1>2. /\ x.start \in Int /\ x.end \in Int /\ y.start \in Int /\ y.end \in Int
      /\ a <= x.start /\ a <= y.start /\ x.end <= b /\ y.end <= b
      /\ x.start <= t /\ t < x.end /\ y.start <= t /\ t < y.end
  BY DEF Run, Within
<1>3. ASSUME NEW v, NEW w, Run(v, a, b, ans), Run(w, a, b, ans), v.user = w.user,
             Within(v, t), Within(w, t), v.start < w.start
      PROVE  FALSE
  <2>1. w.start - 1 \in Int /\ v.start <= w.start - 1 /\ w.start - 1 < v.end
    BY <1>3 DEF Run, Within
  <2>2. ans[w.start - 1] = v.user
    BY <1>3, <2>1 DEF Run
  <2>3. w.start # a
    BY <1>3 DEF Run
  <2> QED
    BY <1>3, <2>2, <2>3 DEF Run
<1>4. ASSUME NEW v, NEW w, Run(v, a, b, ans), Run(w, a, b, ans), v.user = w.user,
             Within(v, t), Within(w, t), v.end < w.end
      PROVE  FALSE
  <2>1. v.end \in Int /\ w.start <= v.end
    BY <1>4 DEF Run, Within
  <2>2. ans[v.end] = w.user
    BY <1>4, <2>1 DEF Run
  <2>3. v.end # b
    BY <1>4 DEF Run
  <2> QED
    BY <1>4, <2>2, <2>3 DEF Run
<1>5. x.start = y.start
  <2>1. ~(x.start < y.start) /\ ~(y.start < x.start)
    BY <1>1, <1>3
  <2> QED
    BY <1>2, <2>1
<1>6. x.end = y.end
  <2>1. ~(x.end < y.end) /\ ~(y.end < x.end)
    BY <1>1, <1>4
  <2> QED
    BY <1>2, <2>1
<1>7. /\ x = [start |-> x.start, user |-> x.user, end |-> x.end]
      /\ y = [start |-> y.start, user |-> y.user, end |-> y.end]
  BY DEF Run
<1> QED
  BY <1>1, <1>5, <1>6, <1>7, Zenon

LEMMA RunsTouching ==
    ASSUME NEW a \in Int, NEW b \in Int, NEW ans, NEW x, NEW y, Run(x, a, b, ans),
           Run(y, a, b, ans), x.end = y.start
    PROVE  x.user # y.user
<1>1. x.end \in Int /\ y.start <= x.end /\ x.end < y.end /\ y.end <= b /\ y.end \in Int
  BY DEF Run
<1>2. ans[x.end] = y.user /\ x.end # b
  BY <1>1 DEF Run
<1> QED
  BY <1>2 DEF Run

LEMMA NoEndInside ==
    ASSUME NEW a \in Int, NEW b \in Int, NEW ans, NEW x, NEW y, Run(x, a, b, ans),
           Run(y, a, b, ans), x.start < y.end, y.end < x.end
    PROVE  FALSE
<1> DEFINE t == y.end - 1
<1>1. t \in Int /\ Within(x, t) /\ Within(y, t)
  BY DEF Run, Within
<1>2. x = y
  <2> HIDE DEF t
  <2> QED
    BY <1>1, RunsApart
<1>3. y.end \in Int
  BY DEF Run
<1> QED
  BY <1>2, <1>3

(* The holes of a chart.                                                   *)
Spanned(spans, a, b, ans) ==
    /\ \A x \in spans : Run(x, a, b, ans)
    /\ \A t \in Int : a <= t /\ t < b /\ ans[t] # Nobody => \E x \in spans : Within(x, t)

Cursors(spans, a) == {a} \cup {x.end : x \in spans}
RestOf(spans, b, c) == {b} \cup {x.start : x \in {y \in spans : y.start >= c}}
HoleAt(spans, b, c) == [start |-> c, end |-> Min(RestOf(spans, b, c))]

LEMMA HolesAre ==
    ASSUME NEW spans, NEW a, NEW b
    PROVE  Holes(spans, a, b) =
             {g \in {HoleAt(spans, b, c) : c \in Cursors(spans, a)} : g.start < g.end}
  BY Zenon DEF Holes, Cursors, RestOf, HoleAt

LEMMA RestIs ==
    ASSUME NEW a \in Int, NEW b \in Int, a < b, NEW ans, NEW spans,
           Spanned(spans, a, b, ans), NEW c \in Cursors(spans, a)
    PROVE  /\ c \in Int /\ a <= c /\ c <= b
           /\ Min(RestOf(spans, b, c)) \in Int /\ Min(RestOf(spans, b, c)) <= b
           /\ Min(RestOf(spans, b, c)) \in RestOf(spans, b, c)
           /\ \A x \in spans : x.start >= c => Min(RestOf(spans, b, c)) <= x.start
<1>1. \A x \in spans : /\ x.start \in Int /\ x.end \in Int
                       /\ a <= x.start /\ x.start < x.end /\ x.end <= b
  BY DEF Spanned, Run
<1>2. c \in Int /\ a <= c /\ c <= b
  <2>1. CASE c = a
    BY <2>1
  <2>2. CASE c # a
    <3>1. PICK x \in spans : c = x.end
      BY <2>2 DEF Cursors
    <3> QED
      BY <1>1, <3>1
  <2> QED
    BY <2>1, <2>2
<1> DEFINE S == RestOf(spans, b, c)
<1>3. S \subseteq Int /\ b \in S /\ (\A s \in S : c <= s)
      /\ (\A x \in spans : x.start >= c => x.start \in S)
  <2>1. \A x \in spans : x.start >= c => x.start \in Int /\ c <= x.start
    BY <1>1, <1>2
  <2> QED
    BY <1>2, <2>1 DEF RestOf
<1> HIDE DEF S
<1>4. Min(S) \in S /\ Min(S) \in Int /\ \A s \in S : Min(S) <= s
  BY <1>2, <1>3, LeastOf
<1>5. Min(S) <= b /\ \A x \in spans : x.start >= c => Min(S) <= x.start
  BY <1>3, <1>4
<1> QED
  BY <1>2, <1>4, <1>5 DEF S

(* Somebody's instant is in no hole.                                       *)
LEMMA CoveredIsNoHole ==
    ASSUME NEW a \in Int, NEW b \in Int, a < b, NEW ans, NEW spans,
           Spanned(spans, a, b, ans), NEW t \in Int, NEW x \in spans, Within(x, t),
           NEW g \in Holes(spans, a, b), Within(g, t)
    PROVE  FALSE
<1>1. PICK c \in Cursors(spans, a) : g = HoleAt(spans, b, c)
  BY HolesAre
<1> DEFINE m == Min(RestOf(spans, b, c))
<1>2. /\ c \in Int /\ a <= c /\ m \in Int
      /\ x.start >= c => m <= x.start
  BY RestIs
<1>3. c <= t /\ t < m
  BY <1>1 DEF Within, HoleAt
<1> HIDE DEF m
<1>4. Run(x, a, b, ans) /\ x.start <= t /\ t < x.end
  BY DEF Spanned, Within
<1>5. x.start \in Int /\ x.end \in Int /\ a <= x.start
  BY <1>4 DEF Run
<1>6. x.start < c /\ c < x.end
  BY <1>2, <1>3, <1>4, <1>5
<1>7. PICK y \in spans : c = y.end
  <2>1. c # a
    BY <1>5, <1>6
  <2> QED
    BY <2>1 DEF Cursors
<1>8. Run(y, a, b, ans)
  BY DEF Spanned
<1> QED
  BY <1>4, <1>6, <1>7, <1>8, NoEndInside

(* Nobody's instant is in one.                                             *)
LEMMA UncoveredIsAHole ==
    ASSUME NEW a \in Int, NEW b \in Int, a < b, NEW ans, NEW spans,
           Spanned(spans, a, b, ans), NEW t \in Int, a <= t, t < b,
           ~\E x \in spans : Within(x, t)
    PROVE  \E g \in Holes(spans, a, b) : Within(g, t)
<1> DEFINE S == {c \in Cursors(spans, a) : c <= t}
           c == Max(S)
           m == Min(RestOf(spans, b, c))
<1>1. S \subseteq Int /\ a \in S /\ \A s \in S : s <= t
  BY RestIs DEF Cursors
<1>2. c \in S /\ c \in Int /\ \A s \in S : s <= c
  <2> HIDE DEF S
  <2> QED
    BY <1>1, GreatestOf
<1> HIDE DEF c
<1>3. c \in Cursors(spans, a) /\ c <= t
  BY <1>2
<1>4. m \in Int /\ m \in RestOf(spans, b, c)
  BY <1>3, RestIs
<1> HIDE DEF m
<1>5. t < m
  <2> SUFFICES ASSUME m <= t PROVE FALSE
    BY <1>4
  <2>1. PICK x \in spans : x.start >= c /\ m = x.start
    BY <1>4 DEF RestOf
  <2>2. Run(x, a, b, ans) /\ ~Within(x, t)
    BY DEF Spanned
  <2>3. x.start \in Int /\ x.end \in Int /\ x.start < x.end
    BY <2>2 DEF Run
  <2>4. x.end <= t
    BY <2>1, <2>2, <2>3 DEF Within
  <2>5. x.end \in S
    BY <2>4 DEF Cursors
  <2> HIDE DEF S
  <2>6. x.end <= c
    BY <1>2, <2>5
  <2> QED
    BY <1>2, <2>1, <2>3, <2>6
<1> DEFINE g == HoleAt(spans, b, c)
<1>6. g.start = c /\ g.end = m
  BY DEF HoleAt, m
<1>7. g \in Holes(spans, a, b)
  <2>1. c < m
    BY <1>2, <1>3, <1>4, <1>5
  <2> HIDE DEF g
  <2> QED
    BY <1>3, <1>6, <2>1, HolesAre DEF g
<1> HIDE DEF g
<1>8. Within(g, t)
  BY <1>3, <1>5, <1>6 DEF Within
<1> QED
  BY <1>7, <1>8

LEMMA HolesApart ==
    ASSUME NEW a \in Int, NEW b \in Int, a < b, NEW ans, NEW spans,
           Spanned(spans, a, b, ans), NEW t \in Int,
           NEW g \in Holes(spans, a, b), Within(g, t),
           NEW h \in Holes(spans, a, b), Within(h, t)
    PROVE  g = h
<1>1. ASSUME NEW c \in Cursors(spans, a), NEW d \in Cursors(spans, a), c < d,
             Within(HoleAt(spans, b, c), t), Within(HoleAt(spans, b, d), t)
      PROVE  FALSE
  <2> DEFINE m == Min(RestOf(spans, b, c))
  <2>1. /\ c \in Int /\ a <= c /\ m \in Int /\ d \in Int
        /\ \A x \in spans : x.start >= c => m <= x.start
    BY RestIs
  <2>2. t < m /\ d <= t
    BY <1>1 DEF Within, HoleAt
  <2> HIDE DEF m
  <2>3. PICK x \in spans : d = x.end
    BY <1>1, <2>1 DEF Cursors
  <2>4. Run(x, a, b, ans)
    BY DEF Spanned
  <2>5. x.start \in Int /\ x.start < d /\ a <= x.start
    BY <2>3, <2>4 DEF Run
  <2>6. x.start < c
    BY <2>1, <2>2, <2>5
  <2>7. PICK y \in spans : c = y.end
    BY <2>1, <2>5, <2>6 DEF Cursors
  <2>8. Run(y, a, b, ans)
    BY DEF Spanned
  <2> QED
    BY <1>1, <2>3, <2>4, <2>6, <2>7, <2>8, NoEndInside
<1>2. PICK c \in Cursors(spans, a) : g = HoleAt(spans, b, c)
  BY HolesAre
<1>3. PICK d \in Cursors(spans, a) : h = HoleAt(spans, b, d)
  BY HolesAre
<1>4. c \in Int /\ d \in Int
  BY RestIs
<1>5. ~(c < d) /\ ~(d < c)
  BY <1>1, <1>2, <1>3
<1>6. c = d
  BY <1>4, <1>5
<1> QED
  BY <1>2, <1>3, <1>6

(* The spans of a chart.                                                   *)
LEMMA SpansAre ==
    ASSUME NEW P, NEW a, NEW b, NEW ans, Chart(P, a, b, ans)
    PROVE  Spanned(Joined(Pieces(P, ans)), a, b, ans)
<1> DEFINE spans == Joined(Pieces(P, ans))
<1>1. spans = {SpanFrom(P, ans, f) : f \in Firsts(P, ans)}
  BY JoinedIs
<1> HIDE DEF spans
<1>2. \A x \in spans : Run(x, a, b, ans)
  BY <1>1, SpanIs
<1>3. ASSUME NEW t \in Int, a <= t, t < b, ans[t] # Nobody
      PROVE  \E x \in spans : Within(x, t)
  <2>1. PICK f \in Firsts(P, ans) :
          SpanFrom(P, ans, f).start <= t /\ t < SpanFrom(P, ans, f).end
    BY <1>3, SpanExists
  <2>2. Within(SpanFrom(P, ans, f), t)
    BY <2>1 DEF Within
  <2> QED
    BY <1>1, <2>2
<1>4. Spanned(spans, a, b, ans)
  BY <1>2, <1>3 DEF Spanned
<1> QED
  BY <1>4 DEF spans

(* What a chart shows, spans and holes together.                           *)
LEMMA ChartShows ==
    ASSUME NEW a \in Int, NEW b \in Int, a < b, NEW ans, NEW spans,
           Spanned(spans, a, b, ans), NEW t \in Int, a <= t, t < b
    PROVE  Shows([spans |-> spans, gaps |-> Holes(spans, a, b)], ans[t], t)
<1> DEFINE here == {x \in spans : Within(x, t)}
           holes == {g \in Holes(spans, a, b) : Within(g, t)}
<1>1. \A x \in spans : Run(x, a, b, ans)
  BY DEF Spanned
<1>2. \A x \in here : ans[t] = x.user /\ x.user # Nobody
  BY <1>1 DEF Run, Within
<1>3. \A x \in spans, y \in spans : x.end = y.start => x.user # y.user
  BY <1>1, RunsTouching
<1>4. ans[t] = Nobody => here = {} /\ \E g \in holes : holes = {g}
  <2> SUFFICES ASSUME ans[t] = Nobody PROVE here = {} /\ \E g \in holes : holes = {g}
    OBVIOUS
  <2>1. here = {}
    BY <1>2
  <2>2. PICK g \in Holes(spans, a, b) : Within(g, t)
    BY <2>1, UncoveredIsAHole
  <2>3. g \in holes /\ \A h \in holes : h = g
    BY <2>2, HolesApart
  <2> HIDE DEF holes, here
  <2> QED
    BY <2>1, <2>3
<1>5. ans[t] # Nobody => holes = {} /\ \E x \in here : here = {x} /\ x.user = ans[t]
  <2> SUFFICES ASSUME ans[t] # Nobody
               PROVE  holes = {} /\ \E x \in here : here = {x} /\ x.user = ans[t]
    OBVIOUS
  <2>1. PICK x \in spans : Within(x, t)
    BY DEF Spanned
  <2>2. holes = {}
    BY <2>1, CoveredIsNoHole
  <2>3. x \in here /\ \A y \in here : y = x
    BY <1>1, <2>1, RunsApart
  <2>4. x.user = ans[t]
    BY <1>2, <2>3
  <2> HIDE DEF holes, here
  <2> QED
    BY <2>2, <2>3, <2>4
<1> QED
  BY <1>3, <1>4, <1>5 DEF Shows

(* The answers of a schedule, charted between its boundaries.              *)
Answers(s, os) == [t \in Int |-> At(s, os, t)]

LEMMA StretchesArePieces ==
    ASSUME NEW s, NEW os, NEW P, P \subseteq Int
    PROVE  Stretches(s, os, P) = Pieces(P, Answers(s, os))
<1>1. \A p \in P : Answers(s, os)[p] = At(s, os, p)
  BY DEF Answers
<1>2. \A p \in P : Piece(P, p, Answers(s, os))
                     = [start |-> p, end |-> Min({q \in P : q > p}), user |-> At(s, os, p)]
  BY <1>1 DEF Piece, After
<1> QED
  BY <1>2, Zenon DEF Stretches, Pieces

LEMMA ScheduleChart ==
    ASSUME NEW s, SoundSchedule(s), OverridesTyped, NEW os \in SUBSET DOMAIN overrides,
           NEW a \in Int, NEW b \in Int, a < b
    PROVE  Chart(Boundaries(s, os, a, b), a, b, Answers(s, os))
<1> DEFINE P == Boundaries(s, os, a, b)
           ans == Answers(s, os)
<1>0. a <= b
  OBVIOUS
<1>1. /\ \A e \in P : e \in Int /\ a <= e /\ e <= b
      /\ a \in P /\ b \in P
  BY <1>0, BoundariesAre
<1>2. ASSUME NEW p \in Int, NEW t \in Int, a <= p, p <= t, t < b,
             ~\E e \in P : p < e /\ e <= t
      PROVE  ans[p] = ans[t]
  <2>1. At(s, os, p) = At(s, os, t)
    BY <1>2, AnswerBetween
  <2> QED
    BY <2>1 DEF Answers
<1> HIDE DEF P, ans
<1>3. Chart(P, a, b, ans)
  BY <1>1, <1>2 DEF Chart
<1> QED
  BY <1>3 DEF P, ans

(* The calendar shows the answer of every instant.                         *)
LEMMA CalendarShows ==
    ASSUME NEW s, SoundSchedule(s), OverridesTyped, NEW os \in SUBSET DOMAIN overrides,
           NEW a \in Int, NEW b \in Int, a < b, NEW t \in Int, a <= t, t < b
    PROVE  Shows([spans |-> Intervals(s, os, a, b), gaps |-> Gaps(s, os, a, b)],
                 At(s, os, t), t)
<1> DEFINE P == Boundaries(s, os, a, b)
           ans == Answers(s, os)
           spans == Joined(Pieces(P, ans))
<1>1. Chart(P, a, b, ans)
  BY ScheduleChart
<1>2. P \subseteq Int
  BY <1>1 DEF Chart
<1>3. Intervals(s, os, a, b) = spans
  BY <1>2, StretchesArePieces DEF Intervals
<1>4. ans[t] = At(s, os, t)
  BY DEF Answers
<1>5. Spanned(spans, a, b, ans)
  BY <1>1, SpansAre
<1> HIDE DEF spans, ans
<1>6. Shows([spans |-> spans, gaps |-> Holes(spans, a, b)], ans[t], t)
  BY <1>5, ChartShows
<1> QED
  BY <1>3, <1>4, <1>6 DEF Gaps

(* Without gaps there is always an answer.                                 *)
LEMMA NoGapsNoNobody ==
    ASSUME NEW s, SoundSchedule(s), OverridesTyped, NEW os \in SUBSET DOMAIN overrides,
           NEW a \in Int, NEW b \in Int, a < b, NEW t \in Int, a <= t, t < b,
           Gaps(s, os, a, b) = {}
    PROVE  At(s, os, t) # Nobody
<1>1. Shows([spans |-> Intervals(s, os, a, b), gaps |-> {}], At(s, os, t), t)
  BY CalendarShows
<1> QED
  BY <1>1 DEF Shows

-----------------------------------------------------------------------------
(* The state.                                                              *)

LEMMA LayerTypes ==
    ASSUME NEW l \in Layer
    PROVE  /\ l.handoffDay \in 0..6 /\ l.handoffAt \in TimeOfDay
           /\ Len(l.participants) \in Nat \ {0}
           /\ l.zone \in Zone /\ l.restriction \subseteq Restriction
<1>1. ASSUME NEW R, NEW D, NEW A, NEW P, NEW Z, NEW H,
             NEW x \in [rotation : R, handoffDay : D, handoffAt : A, participants : P,
                        zone : Z, restriction : H]
      PROVE  /\ x.rotation \in R /\ x.handoffDay \in D /\ x.handoffAt \in A
             /\ x.participants \in P /\ x.zone \in Z /\ x.restriction \in H
  OBVIOUS
<1>2. /\ l.handoffDay \in 0..6 /\ l.handoffAt \in TimeOfDay
      /\ l.participants \in Seq(STRING) \ {<<>>}
      /\ l.zone \in Zone /\ l.restriction \in SUBSET Restriction
  BY <1>1, Zenon DEF Layer
<1>3. Len(l.participants) \in Nat \ {0}
  BY <1>2, EmptySeq
<1> QED
  BY <1>2, <1>3

LEMMA LayerRotation ==
    ASSUME NEW l \in Layer
    PROVE  l.rotation \in {"daily", "weekly", ""}
<1>1. ASSUME NEW R, NEW D, NEW A, NEW P, NEW Z, NEW H,
             NEW x \in [rotation : R, handoffDay : D, handoffAt : A, participants : P,
                        zone : Z, restriction : H]
      PROVE  x.rotation \in R
  OBVIOUS
<1> QED
  BY <1>1, Zenon DEF Layer

(* A layer that is loaded is sound: its anchor is one of its handoffs.     *)
LEMMA NewLayerSound ==
    ASSUME NEW l \in Layer, MovesAnHour(l.zone), SkipsByDay(l.zone)
    PROVE  Sound(NewLayer(l)) /\ NewLayer(l).zone = l.zone
<1> DEFINE n == NewLayer(l)
<1>1. /\ n.rotation = l.rotation /\ n.handoffDay = l.handoffDay
      /\ n.handoffAt = l.handoffAt /\ n.participants = l.participants
      /\ n.zone = l.zone /\ n.restriction = l.restriction
      /\ n.anchor = IF l.rotation = "" THEN AnchorRef ELSE NextHandoff(l, AnchorRef)
  <2>1. ASSUME NEW R, NEW D, NEW A, NEW P, NEW Z, NEW H, NEW C
        PROVE  LET x == [rotation |-> R, handoffDay |-> D, handoffAt |-> A,
                         participants |-> P, zone |-> Z, restriction |-> H, anchor |-> C]
               IN  /\ x.rotation = R /\ x.handoffDay = D /\ x.handoffAt = A
                   /\ x.participants = P /\ x.zone = Z /\ x.restriction = H
                   /\ x.anchor = C
    OBVIOUS
  <2> QED
    BY <2>1, Zenon DEF NewLayer
<1> HIDE DEF n
<1>2. Plain(l.zone)
  BY LayerTypes DEF Plain
<1>3. l.rotation # "" => Rotates(l)
  <2>1. l.rotation # "" => l.rotation \in {"daily", "weekly"}
    BY LayerRotation, Zenon
  <2> QED
    BY <1>2, <2>1, LayerTypes, Zenon DEF Rotates
<1>4. Rotates(l) => Rotates(n)
  BY <1>1 DEF Rotates
<1>5. HandoffsOf(n) = HandoffsOf(l)
  <2>1. HandoffDays(n) = HandoffDays(l)
    BY <1>1 DEF HandoffDays
  <2>2. \A d : Handoff(n, d) = Handoff(l, d)
    BY <1>1 DEF Handoff
  <2> QED
    BY <2>1, <2>2 DEF HandoffsOf
<1>6. Rotates(l) => NextHandoff(l, AnchorRef) \in HandoffsOf(l)
  BY NextIs DEF AnchorRef
<1>7. n.rotation # "" => Rotates(n) /\ n.anchor \in HandoffsOf(n)
  BY <1>1, <1>3, <1>4, <1>5, <1>6, Zenon
<1>8. n.rotation \in {"daily", "weekly", ""}
  BY <1>1, LayerRotation, Zenon
<1>9. Len(n.participants) \in Nat \ {0} /\ Plain(n.zone) /\ n.restriction \subseteq Restriction
  BY <1>1, <1>2, LayerTypes
<1>10. Sound(n)
  BY <1>7, <1>8, <1>9, Zenon DEF Sound
<1> QED
  BY <1>1, <1>10 DEF n

LEMMA LoadedSound ==
    ASSUME ZonesKeepDates, NEW s \in Loaded
    PROVE  /\ \A i \in DOMAIN s : Sound(s[i])
           /\ ZonesRepeatByDay => SoundSchedule(s)
<1>1. PICK c \in Schedules : s = FromConfig(c)
  BY DEF Loaded
<1>2. DOMAIN s = DOMAIN c /\ \A i \in DOMAIN c : s[i] = NewLayer(c[i])
  BY <1>1 DEF FromConfig
<1>3. \A i \in DOMAIN c : c[i] \in Layer
  <2>1. c \in Seq(Layer)
    BY ScheduleAssumption DEF ScheduleAssumption
  <2> QED
    BY <2>1, LenProperties, ElementOfSeq
<1>4. \A i \in DOMAIN c : Sound(NewLayer(c[i])) /\ NewLayer(c[i]).zone = c[i].zone
  BY <1>3, NewLayerSound DEF ZonesKeepDates, KeepsDates
<1>5. ZonesRepeatByDay => \A i \in DOMAIN c : RepeatsByDay(NewLayer(c[i]).zone)
  BY <1>4 DEF ZonesRepeatByDay, RepeatsDates
<1>6. ZonesRepeatByDay => \A i \in DOMAIN s : Sound(s[i]) /\ RepeatsByDay(s[i].zone)
  BY <1>2, <1>4, <1>5
<1> QED
  BY <1>2, <1>4, <1>6, Zenon DEF SoundSchedule

(* What the type invariant says of the parts.                              *)
LEMMA StateTypes ==
    ASSUME TypeOK
    PROVE  /\ from \in Int /\ now \in Int /\ to \in Int /\ Horizon \in Nat \ {0}
           /\ from <= now /\ now < to /\ schedule \in Loaded /\ OverridesTyped
<1>1. /\ from \in Int /\ Horizon \in Nat \ {0} /\ Covers \subseteq Override
      /\ overrides \in Seq(Covers) /\ schedule \in Loaded /\ now \in from .. to - 1
  BY ScheduleAssumption DEF ScheduleAssumption, TypeOK
<1>2. to \in Int
  BY <1>1 DEF to
<1>3. \A i \in DOMAIN overrides : overrides[i] \in Override
  BY <1>1, LenProperties, ElementOfSeq
<1>4. OverridesTyped
  BY <1>3 DEF OverridesTyped, Override
<1> QED
  BY <1>1, <1>2, <1>4

LEMMA RotaHolds ==
    ASSUME ZonesKeepDates, TypeOK
    PROVE  RotaIsKept
<1>1. \A s \in Loaded : \A l \in Range(s) : Sound(l)
  BY LoadedSound DEF Range
<1>2. now \in Int /\ schedule \in Loaded
  BY StateTypes
<1>3. \A l \in Rotating(schedule) :
        /\ Rotates(l) /\ l.anchor \in HandoffsOf(l) /\ Len(l.participants) \in Nat \ {0}
  BY <1>1, <1>2, Zenon DEF Rotating, Sound
<1>4. ResolutionIsPolicy
  <2> SUFFICES ASSUME NEW s \in Loaded, NEW l \in Range(s)
               PROVE  Resolve(now, l.zone) = PolicyInstant(now, l.zone)
    BY DEF ResolutionIsPolicy
  <2>1. Sound(l)
    BY <1>1
  <2>2. Plain(l.zone)
    BY <2>1, Zenon DEF Sound
  <2>3. l.zone \in Zone
    BY <2>2 DEF Plain
  <2> QED
    BY <1>2, <2>2, <2>3, ResolveIsReached, PolicyIsReached
<1>5. HandoffsOnTime
  BY <1>2, <1>3, <1>4, HandoffsAreOnTime DEF HandoffsOnTime
<1>6. TurnsInOrder
  BY <1>2, <1>3, TurnsAreInOrder DEF TurnsInOrder
<1> QED
  BY <1>5, <1>6 DEF RotaIsKept

LEMMA HoursKeptHere ==
    ASSUME ZonesKeepDates, TypeOK
    PROVE  HoursHold
<1>1. now \in Int /\ schedule \in Loaded
  BY StateTypes
<1>2. \A l \in Range(schedule) : Sound(l)
  BY <1>1, LoadedSound DEF Range
<1>3. \A l \in Range(schedule) : Plain(l.zone) /\ l.restriction \subseteq Restriction
  BY <1>2, Zenon DEF Sound
<1>4. \A l \in Range(schedule) : \A r \in l.restriction : Plain(l.zone) /\ r \in Restriction
  BY <1>3
<1> QED
  BY <1>1, <1>4, HoursByClock DEF HoursHold

(* An instant on its own misses only the overrides that begin with it.     *)
LEMMA PagedIsShown ==
    ASSUME TypeOK
    PROVE  PagesWhoIsShown
<1>1. /\ from \in Int /\ now \in Int /\ to \in Int /\ from <= now /\ now < to
      /\ OverridesTyped
  BY StateTypes
<1> SUFFICES ASSUME ~\E o \in Range(overrides) : o.starts = now
             PROVE  ResolveTarget = At(schedule, OverridesInWindow(from, to), now)
  BY DEF PagesWhoIsShown
<1>2. \A i \in DOMAIN overrides : overrides[i].starts # now
  BY DEF Range
<1> DEFINE Covering(os) == {i \in os : overrides[i].starts <= now /\ now < overrides[i].ends}
<1>3. Covering(OverridesInWindow(now, now)) = Covering(OverridesInWindow(from, to))
  <2> SUFFICES ASSUME NEW i \in DOMAIN overrides, overrides[i].starts <= now,
                      now < overrides[i].ends
               PROVE  /\ overrides[i].starts < now /\ overrides[i].ends > now
                      /\ overrides[i].starts < to /\ overrides[i].ends > from
    BY DEF OverridesInWindow
  <2>1. overrides[i].starts \in Int /\ overrides[i].ends \in Int
    BY <1>1 DEF OverridesTyped
  <2> QED
    BY <1>1, <1>2, <2>1
<1>4. OverrideAt(OverridesInWindow(now, now), now) = OverrideAt(OverridesInWindow(from, to), now)
  BY <1>3, Zenon DEF OverrideAt
<1> QED
  BY <1>4, Zenon DEF ResolveTarget, At

LEMMA CalendarHolds ==
    ASSUME ZonesKeepDates, ZonesRepeatByDay, TypeOK
    PROVE  CalendarIsTrue
<1>1. /\ from \in Int /\ now \in Int /\ to \in Int /\ from <= now /\ now < to
      /\ OverridesTyped /\ SoundSchedule(schedule)
  BY StateTypes, LoadedSound
<1> DEFINE os == OverridesInWindow(from, to)
<1>2. os \in SUBSET DOMAIN overrides
  BY DEF OverridesInWindow
<1> HIDE DEF os
<1>3. from < to
  BY <1>1
<1>4. Shows([spans |-> Intervals(schedule, os, from, to), gaps |-> Gaps(schedule, os, from, to)],
            At(schedule, os, now), now)
  BY <1>1, <1>2, <1>3, CalendarShows
<1>5. CalendarAgrees
  BY <1>4, Zenon DEF CalendarAgrees, Calendar, os
<1> QED
  BY <1>5, PagedIsShown DEF CalendarIsTrue

LEMMA CoverageHolds ==
    ASSUME ZonesKeepDates, ZonesRepeatByDay, TypeOK
    PROVE  ValidatedIsCovered
<1>1. /\ from \in Int /\ now \in Int /\ to \in Int /\ from <= now /\ now < to
      /\ OverridesTyped /\ SoundSchedule(schedule)
  BY StateTypes, LoadedSound
<1> SUFFICES ASSUME CheckCoverage(schedule, from, Horizon) = {}
             PROVE  ResolveTarget # Nobody
  BY DEF ValidatedIsCovered
<1>2. Gaps(schedule, {}, from, to) = {} /\ from < to
  BY <1>1 DEF CheckCoverage, to
<1>3. At(schedule, {}, now) # Nobody
  <2>1. {} \in SUBSET DOMAIN overrides
    OBVIOUS
  <2> QED
    BY <1>1, <1>2, <2>1, NoGapsNoNobody
<1>4. OverrideAt({}, now) = Nobody
  BY DEF OverrideAt
<1>5. LayersAt(schedule, now) # Nobody
  BY <1>3, <1>4 DEF At
<1> QED
  BY <1>5 DEF ResolveTarget, At

-----------------------------------------------------------------------------
(* The theorems.                                                           *)

LEMMA InitTypes ==
    ASSUME Init
    PROVE  TypeOK
<1>1. Starts \subseteq Int /\ Horizon \in Nat \ {0} /\ MaxOverrides \in Nat
  BY ScheduleAssumption DEF ScheduleAssumption
<1>2. from \in Starts /\ now = from /\ schedule \in Loaded /\ overrides = <<>>
  BY DEF Init
<1>3. now \in from .. to - 1
  BY <1>1, <1>2 DEF to
<1>4. overrides \in Seq(Covers) /\ Len(overrides) = 0
  BY <1>2, EmptySeq
<1>5. Range(overrides) = {}
  BY <1>2 DEF Range
<1> QED
  BY <1>1, <1>2, <1>3, <1>4, <1>5 DEF TypeOK

LEMMA InsertTypes ==
    ASSUME TypeOK, NEW o \in Covers, InsertOverride(o)
    PROVE  TypeOK'
<1>1. /\ overrides \in Seq(Covers) /\ Len(overrides) <= MaxOverrides
      /\ \A x \in Range(overrides) : x.starts < x.ends
  BY DEF TypeOK
<1>2. /\ o.ends > o.starts /\ Len(overrides) < MaxOverrides
      /\ overrides' = Append(overrides, o)
      /\ now' = now /\ from' = from /\ schedule' = schedule
  BY DEF InsertOverride
<1>3. /\ overrides' \in Seq(Covers) /\ Len(overrides') = Len(overrides) + 1
      /\ \A i \in 1..Len(overrides) : overrides'[i] = overrides[i]
      /\ overrides'[Len(overrides) + 1] = o
  BY <1>1, <1>2, AppendProperties
<1>4. Len(overrides) \in Nat /\ MaxOverrides \in Nat
  BY <1>1, LenProperties, ScheduleAssumption DEF ScheduleAssumption
<1>5. Len(overrides') <= MaxOverrides
  BY <1>2, <1>3, <1>4
<1>6. DOMAIN overrides = 1..Len(overrides) /\ DOMAIN overrides' = 1..Len(overrides) + 1
  BY <1>1, <1>3, LenProperties
<1>7. ASSUME NEW i \in DOMAIN overrides' PROVE overrides'[i].starts < overrides'[i].ends
  <2>1. CASE i \in 1..Len(overrides)
    <3>1. overrides'[i] = overrides[i] /\ overrides[i] \in Range(overrides)
      BY <1>3, <1>6, <2>1 DEF Range
    <3> QED
      BY <1>1, <3>1
  <2>2. CASE i = Len(overrides) + 1
    <3>1. o.starts \in Int /\ o.ends \in Int
      BY ScheduleAssumption DEF ScheduleAssumption, Override
    <3> QED
      BY <1>2, <1>3, <2>2, <3>1
  <2> QED
    BY <1>4, <1>6, <2>1, <2>2
<1>8. \A x \in Range(overrides') : x.starts < x.ends
  BY <1>7 DEF Range
<1>9. from' \in Starts /\ schedule' \in Loaded /\ now' \in from' .. to' - 1
  BY <1>2 DEF TypeOK, to
<1> QED
  BY <1>3, <1>5, <1>8, <1>9 DEF TypeOK, Range

LEMMA DeleteTypes ==
    ASSUME TypeOK, NEW i \in DOMAIN overrides, DeleteOverride(i)
    PROVE  TypeOK'
<1>1. /\ overrides \in Seq(Covers) /\ Len(overrides) <= MaxOverrides
      /\ \A x \in Range(overrides) : x.starts < x.ends
  BY DEF TypeOK
<1> DEFINE n == Len(overrides)
           before == SubSeq(overrides, 1, i - 1)
           after == SubSeq(overrides, i + 1, n)
<1>2. overrides' = before \o after /\ now' = now /\ from' = from /\ schedule' = schedule
  BY DEF DeleteOverride, RemoveAt
<1>3. n \in Nat /\ MaxOverrides \in Nat /\ DOMAIN overrides = 1..n /\ i \in 1..n
  BY <1>1, LenProperties, ScheduleAssumption DEF ScheduleAssumption
<1>4. \A j \in 1..n : overrides[j] \in Covers /\ overrides[j] \in Range(overrides)
  BY <1>1, <1>3, ElementOfSeq DEF Range
<1> DEFINE Sane == {o \in Covers : o.starts < o.ends}
<1>5. \A j \in 1..n : overrides[j] \in Sane
  BY <1>1, <1>4
<1> HIDE DEF n, Sane
<1>6. before \in Seq(Sane) /\ Len(before) = i - 1
  <2>1. \A j \in 1 .. i - 1 : overrides[j] \in Sane
    BY <1>3, <1>5
  <2>2. /\ SubSeq(overrides, 1, i - 1) \in Seq(Sane)
        /\ Len(SubSeq(overrides, 1, i - 1)) = IF 1 <= i - 1 THEN (i - 1) - 1 + 1 ELSE 0
    BY <1>3, <2>1, SubSeqProperties
  <2> QED
    BY <1>3, <2>2
<1>7. after \in Seq(Sane) /\ Len(after) = n - i
  <2>1. \A j \in i + 1 .. n : overrides[j] \in Sane
    BY <1>3, <1>5
  <2>2. /\ SubSeq(overrides, i + 1, n) \in Seq(Sane)
        /\ Len(SubSeq(overrides, i + 1, n)) = IF i + 1 <= n THEN n - (i + 1) + 1 ELSE 0
    BY <1>3, <2>1, SubSeqProperties
  <2> QED
    BY <1>3, <2>2
<1> HIDE DEF before, after
<1>8. overrides' \in Seq(Sane) /\ Len(overrides') = n - 1
  <2>1. before \o after \in Seq(Sane) /\ Len(before \o after) = Len(before) + Len(after)
    BY <1>6, <1>7, ConcatProperties
  <2> QED
    BY <1>2, <1>3, <1>6, <1>7, <2>1
<1>9. \A j \in DOMAIN overrides' : overrides'[j] \in Sane
  BY <1>8, LenProperties, ElementOfSeq
<1>10. overrides' \in Seq(Covers)
  <2>1. Sane \subseteq Covers
    BY DEF Sane
  <2> QED
    BY <1>8, <2>1
<1>11. Len(overrides') <= MaxOverrides
  BY <1>1, <1>3, <1>8 DEF n
<1>12. \A x \in Range(overrides') : x.starts < x.ends
  BY <1>9 DEF Range, Sane
<1>13. from' \in Starts /\ schedule' \in Loaded /\ now' \in from' .. to' - 1
  BY <1>2 DEF TypeOK, to
<1> QED
  BY <1>10, <1>11, <1>12, <1>13 DEF TypeOK, Range

(* Every value has its type, and an override ends after it starts, whatever *)
(* is created and withdrawn (internal/store/overrides.go:44).              *)
THEOREM TypeCorrect == Spec => []TypeOK
<1>1. Init => TypeOK
  BY InitTypes
<1>2. TypeOK /\ [Next]_vars => TypeOK'
  <2> SUFFICES ASSUME TypeOK, [Next]_vars PROVE TypeOK'
    OBVIOUS
  <2>1. ASSUME NEW o \in Covers, InsertOverride(o) PROVE TypeOK'
    BY <2>1, InsertTypes
  <2>2. ASSUME NEW i \in DOMAIN overrides, DeleteOverride(i) PROVE TypeOK'
    BY <2>2, DeleteTypes
  <2>3. ASSUME NEW s \in Loaded, Replace(s) PROVE TypeOK'
    BY <2>3 DEF TypeOK, Replace, to, Range
  <2>4. CASE Tick
    <3>1. /\ now + 1 < to /\ now' = now + 1 /\ to' = to
          /\ UNCHANGED <<from, schedule, overrides>>
      BY <2>4 DEF Tick, to
    <3>2. from \in Int /\ to \in Int /\ now \in from .. to - 1
      BY StateTypes DEF TypeOK
    <3>3. now' \in from' .. to' - 1
      BY <3>1, <3>2
    <3> QED
      BY <3>1, <3>3 DEF TypeOK, Range
  <2>5. CASE UNCHANGED vars
    BY <2>5 DEF TypeOK, vars, to, Range
  <2> QED
    BY <2>1, <2>2, <2>3, <2>4, <2>5 DEF Next
<1> QED
  BY <1>1, <1>2, PTL DEF Spec

(* In zones that no change takes out of a date: a wall clock resolves to   *)
(* the instant the policy names, no handoff is skipped, repeated or moved  *)
(* by a clock change, and each hands over to the next participant of the   *)
(* list (wallclock.go, schedule.go).                                       *)
THEOREM RotaKept ==
    ASSUME ZonesKeepDates
    PROVE  Spec => []RotaIsKept
<1>1. TypeOK => RotaIsKept
  BY RotaHolds
<1> QED
  BY <1>1, TypeCorrect, PTL

(* In such zones a restricted layer is on duty when the local clock says   *)
(* so, across a change of the clock and across midnight (restriction.go).  *)
THEOREM HoursKept ==
    ASSUME ZonesKeepDates
    PROVE  Spec => []HoursHold
<1>1. TypeOK => HoursHold
  BY HoursKeptHere
<1> QED
  BY <1>1, TypeCorrect, PTL

(* Where a repeated hour also keeps to a date, the spans and gaps that     *)
(* Intervals and Gaps list agree with At at every instant of the window,   *)
(* and the person a step pages is the one shown, except at the very start  *)
(* of an override.                                                         *)
THEOREM CalendarTrue ==
    ASSUME ZonesKeepDates, ZonesRepeatByDay
    PROVE  Spec => []CalendarIsTrue
<1>1. TypeOK => CalendarIsTrue
  BY CalendarHolds
<1> QED
  BY <1>1, TypeCorrect, PTL

(* There, a schedule without gaps when kerberon validate looks at it has   *)
(* somebody to page at each instant it looked at, whatever overrides are   *)
(* made and withdrawn.                                                     *)
THEOREM ValidatedCovered ==
    ASSUME ZonesKeepDates, ZonesRepeatByDay
    PROVE  Spec => []ValidatedIsCovered
<1>1. TypeOK => ValidatedIsCovered
  BY CoverageHolds
<1> QED
  BY <1>1, TypeCorrect, PTL
=============================================================================
