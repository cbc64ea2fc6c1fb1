------------------------------ MODULE Schedule ------------------------------
(***************************************************************************)
(* Who is on call (internal/schedule), the overrides that stand in for a   *)
(* rotation (internal/store/overrides.go), and the lookup an escalation    *)
(* makes when a step fires (escalate/adapters.go).  Time passes, overrides *)
(* come and go, and a reload swaps the schedule.                           *)
(***************************************************************************)
EXTENDS WallClock, Sequences, SequencesExt

CONSTANTS
    Schedules,      \* the schedules a reload may bring: sequences of layers
    Covers,         \* the overrides people may ask for
    MaxOverrides,   \* a bound on overrides at a time
    Starts,         \* where the window that is looked at may begin
    Horizon         \* how long it is

Nobody == ""
Override == [user : STRING \ {Nobody}, starts : Int, ends : Int]

(* What validation lets through: a layer has a rotation, "" for a fixed     *)
(* person; a handoff day and time; somebody; a zone; at most one restriction.*)
TimeOfDay == 0 .. DayLength - 1
Restriction == [days : SUBSET (0..6), start : TimeOfDay, end : TimeOfDay]
Layer == [rotation : {"daily", "weekly", ""}, handoffDay : 0..6, handoffAt : TimeOfDay,
          participants : Seq(STRING) \ {<<>>}, zone : Zone,
          restriction : SUBSET Restriction]

ASSUME ScheduleAssumption ==
    /\ Covers \subseteq Override /\ MaxOverrides \in Nat
    /\ Starts \subseteq Int /\ Horizon \in Nat \ {0}
    /\ Schedules \subseteq Seq(Layer)
    /\ \A s \in Schedules : \A i \in DOMAIN s :
          \A r \in s[i].restriction : r.start # r.end

VARIABLES
    now,        \* the clock
    from,       \* the beginning of the window a calendar shows
    schedule,   \* the schedule in force
    overrides   \* the rows of the table, in the order they were created

vars == <<now, from, schedule, overrides>>
to == from + Horizon

-----------------------------------------------------------------------------
(* Handoffs, and whose turn a handoff begins.                              *)

NextHandoff(l, t) ==
    IF l.rotation = "daily"
    THEN NextDaily(t, l.handoffAt, l.zone)
    ELSE NextWeekly(t, l.handoffDay, l.handoffAt, l.zone)

(* A layer of the running process knows its first handoff.                 *)
AnchorRef == 0
NewLayer(l) ==
    [rotation |-> l.rotation, handoffDay |-> l.handoffDay, handoffAt |-> l.handoffAt,
     participants |-> l.participants, zone |-> l.zone, restriction |-> l.restriction,
     anchor |-> IF l.rotation = "" THEN AnchorRef ELSE NextHandoff(l, AnchorRef)]

FromConfig(s) == [i \in DOMAIN s |-> NewLayer(s[i])]
Loaded == {FromConfig(s) : s \in Schedules}

PrevHandoff(l, t) ==
    LET back == IF l.rotation = "daily" THEN 2 ELSE 9
        Walk[cur \in Int] ==
            LET next == NextHandoff(l, cur)
            IN  IF next > t THEN cur ELSE Walk[next]
    IN  Walk[NextHandoff(l, t - (back + 1) * DayLength)]

(* Mutant: days are counted by duration.                                   *)
CivilDaysByDuration(a, b, z) == (b - a) \div DayLength

CivilDays(a, b, z) == DayOf(Local(b, z)) - DayOf(Local(a, z))

Position(l, handoff) ==
    LET days == CivilDays(l.anchor, handoff, l.zone)
        weeks == IF days >= 0 THEN days \div 7 ELSE -((-days) \div 7)
    IN  (IF l.rotation = "weekly" THEN weeks ELSE days) % Len(l.participants)

(* The window that opens on the local date of `day', and whether it does.  *)
CrossesMidnight(r) == r.end <= r.start

WindowStartingOn(r, day, z) ==
    LET d == Local(day, z)
        endDay == IF CrossesMidnight(r) THEN Local(AddDate(day, 1, z), z) ELSE d
        start == Resolve(Midnight(d) + r.start, z)
        end == Resolve(Midnight(endDay) + r.end, z)
    IN  IF WeekdayOf(DayOf(d)) \in r.days /\ end > start
        THEN {[start |-> start, end |-> end]}
        ELSE {}

Within(iv, t) == iv.start <= t /\ t < iv.end

(* Mutant: only a window that opened today counts.                         *)
RestrictionCoversToday(r, t, z) == \E w \in WindowStartingOn(r, t, z) : Within(w, t)

RestrictionCovers(r, t, z) ==
    \E offset \in {-1, 0} :
        \E w \in WindowStartingOn(r, AddDate(t, offset, z), z) : Within(w, t)

UserAt(l, t) ==
    IF \E r \in l.restriction : ~RestrictionCovers(r, t, l.zone) THEN Nobody
    ELSE IF l.rotation = "" THEN l.participants[1]
    ELSE l.participants[Position(l, PrevHandoff(l, t)) + 1]

-----------------------------------------------------------------------------
(* The instants in (a, b] at which a layer may change its answer.          *)

(* Mutant: the days begin with the first day of the window itself.         *)
RestrictionBoundariesFromToday(r, a, b, z) ==
    LET limit == AddDate(b, 1, z)
        Days[d \in Int] ==
            IF d < limit THEN {d} \cup Days[AddDate(d, 1, z)] ELSE {}
        edges == UNION {{w.start, w.end} :
                        w \in UNION {WindowStartingOn(r, d, z) : d \in Days[a]}}
    IN  {e \in edges : a < e /\ e <= b}

RestrictionBoundaries(r, a, b, z) ==
    LET limit == AddDate(b, 1, z)
        Days[d \in Int] ==
            IF d < limit THEN {d} \cup Days[AddDate(d, 1, z)] ELSE {}
        edges == UNION {{w.start, w.end} :
                        w \in UNION {WindowStartingOn(r, d, z) :
                                     d \in Days[AddDate(a, -1, z)]}}
    IN  {e \in edges : a < e /\ e <= b}

LayerBoundaries(l, a, b) ==
    LET Handoffs[h \in Int] ==
            IF h > b THEN {} ELSE {h} \cup Handoffs[NextHandoff(l, h)]
    IN  (IF l.rotation = "" THEN {} ELSE Handoffs[NextHandoff(l, a)])
          \cup UNION {RestrictionBoundaries(r, a, b, l.zone) : r \in l.restriction}

(* Mutant: only overrides that begin inside the window are read.           *)
OverridesInWindowInside(a, b) ==
    {i \in DOMAIN overrides : a <= overrides[i].starts /\ overrides[i].starts < b}

(* OverridesInWindow reads the rows that overlap [a, b); the lookup of a   *)
(* single instant passes a window that ends a nanosecond later, and rows   *)
(* are compared in whole seconds, so there b is a itself.  A row is its    *)
(* place in the order of creation.                                         *)
OverridesInWindow(a, b) ==
    {i \in DOMAIN overrides : overrides[i].starts < b /\ overrides[i].ends > a}

(* Of the overrides that cover t the one created last wins.                *)
OverrideAt(os, t) ==
    LET covering == {i \in os : overrides[i].starts <= t /\ t < overrides[i].ends}
    IN  IF covering = {} THEN Nobody ELSE overrides[Max(covering)].user

(* The first layer, in the order of the file, that has an answer.          *)
Topmost(answers) ==
    LET covering == {x \in answers : x.user # Nobody}
    IN  IF covering = {} THEN Nobody
        ELSE (CHOOSE x \in covering : \A y \in covering : x.layer <= y.layer).user

LayersAt(s, t) == Topmost({[layer |-> i, user |-> UserAt(s[i], t)] : i \in DOMAIN s})

At(s, os, t) ==
    LET stand_in == OverrideAt(os, t)
    IN  IF stand_in # Nobody THEN stand_in ELSE LayersAt(s, t)

(* Every instant of [a, b] at which the answer may change.                 *)
Boundaries(s, os, a, b) ==
    {a, b} \cup (UNION {LayerBoundaries(s[i], a, b) : i \in DOMAIN s})
           \cup {p \in UNION {{overrides[i].starts, overrides[i].ends} : i \in os} :
                    a < p /\ p < b}

(* One question for each stretch between two boundaries that follow.       *)
Stretches(s, os, points) ==
    {[start |-> p, end |-> Min({q \in points : q > p}), user |-> At(s, os, p)] :
        p \in points \ {Max(points)}}

(* Stretches of one person that touch are one span; a stretch of nobody is *)
(* no span.                                                                *)
Joined(stretches) ==
    LET covered == {x \in stretches : x.user # Nobody}
        Joins(x, y) == x.end = y.start /\ x.user = y.user
        firsts == {x \in covered : ~\E y \in covered : Joins(y, x)}
        lasts == {x \in covered : ~\E y \in covered : Joins(x, y)}
    IN  {[start |-> f.start, user |-> f.user,
          end |-> Min({x.end : x \in {y \in lasts : y.start >= f.start}})] : f \in firsts}

Intervals(s, os, a, b) == Joined(Stretches(s, os, Boundaries(s, os, a, b)))

(* The stretches of [a, b) before, between and after the spans.            *)
Holes(spans, a, b) ==
    LET cursors == {a} \cup {x.end : x \in spans}
        Rest(c) == {b} \cup {x.start : x \in {y \in spans : y.start >= c}}
    IN  {g \in {[start |-> c, end |-> Min(Rest(c))] : c \in cursors} : g.start < g.end}

Gaps(s, os, a, b) == Holes(Intervals(s, os, a, b), a, b)

(* Mutant: coverage is sampled once a day.                                 *)
CheckCoverageSampled(s, a, window) ==
    {t \in a .. a + window - 1 :
        (t - a) % DayLength = 0 /\ At(s, {}, t) = Nobody}

(* kerberon validate: the holes of a rotation without its overrides.       *)
CheckCoverage(s, a, window) == Gaps(s, {}, a, a + window)

(* What kerberon oncall shows of the window.  The API and the web pages    *)
(* compute the same, from the schedules the process started with.          *)
Calendar ==
    LET os == OverridesInWindow(from, to)
    IN  [spans |-> Intervals(schedule, os, from, to),
         gaps |-> Gaps(schedule, os, from, to)]

(* The person a step pages for its schedule target.                        *)
ResolveTarget == At(schedule, OverridesInWindow(now, now), now)

-----------------------------------------------------------------------------

Init ==
    /\ from \in Starts
    /\ now = from
    /\ schedule \in Loaded
    /\ overrides = <<>>

InsertOverride(o) ==
    /\ o.ends > o.starts
    /\ Len(overrides) < MaxOverrides
    /\ overrides' = Append(overrides, o)
    /\ UNCHANGED <<now, from, schedule>>

DeleteOverride(i) ==
    /\ overrides' = RemoveAt(overrides, i)
    /\ UNCHANGED <<now, from, schedule>>

(* ScheduleTargets.Replace: what a reload brings in.                       *)
Replace(s) ==
    /\ schedule' = s
    /\ UNCHANGED <<now, from, overrides>>

Tick ==
    /\ now + 1 < to
    /\ now' = now + 1
    /\ UNCHANGED <<from, schedule, overrides>>

Next ==
    \/ \E o \in Covers : InsertOverride(o)
    \/ \E i \in DOMAIN overrides : DeleteOverride(i)
    \/ \E s \in Loaded : Replace(s)
    \/ Tick

Spec == Init /\ [][Next]_vars

-----------------------------------------------------------------------------
(* Properties.                                                             *)

(* Values of their types; overrides end after they start.                  *)
TypeOK ==
    /\ from \in Starts /\ now \in from .. to - 1
    /\ schedule \in Loaded
    /\ overrides \in Seq(Covers) /\ Len(overrides) <= MaxOverrides
    /\ \A o \in Range(overrides) : o.starts < o.ends

Rotating(s) == {l \in Range(s) : l.rotation # ""}

(* Every wall clock resolves to the instant the two policies name: the     *)
(* first of two occurrences, the end of the gap if there is none, whatever *)
(* time.Date answers (wallclock.go:30-42).  Every wall clock in the window *)
(* is tried in every zone.                                                 *)
ResolutionIsPolicy ==
    \A l \in UNION {Range(s) : s \in Loaded} :
        Resolve(now, l.zone) = PolicyInstant(now, l.zone)

(* The handoffs of the calendar, around an instant.                        *)
HandoffsAround(l) ==
    LET today == DayOf(Local(now, l.zone))
        days == {d \in today - 9 .. today + 9 :
                    l.rotation = "weekly" => WeekdayOf(d) = l.handoffDay}
    IN  {PolicyInstant(d * DayLength + l.handoffAt, l.zone) : d \in days}

(* Wall clocks resolve as they should, and the handoffs before and after   *)
(* any instant are the calendar's: none is skipped, repeated or moved when *)
(* the clock changes.                                                      *)
HandoffsOnTime ==
  /\ ResolutionIsPolicy
  /\ \A l \in Rotating(schedule) :
          /\ NextHandoff(l, now) = Min({h \in HandoffsAround(l) : h > now})
          /\ PrevHandoff(l, now) = Max({h \in HandoffsAround(l) : h <= now})

(* At each handoff the next participant in the list takes over, also where *)
(* a day has 23 or 25 hours, and before the rotation's anchor.             *)
TurnsInOrder ==
    \A l \in Rotating(schedule) :
        Position(l, NextHandoff(l, now))
            = (Position(l, PrevHandoff(l, now)) + 1) % Len(l.participants)

(* The rota is the calendar's: everybody's turn comes when it should, in    *)
(* the order of the list, and ends when the next begins.                    *)
RotaIsKept == HandoffsOnTime /\ TurnsInOrder

(* A restricted layer keeps its hours by the local clock across a change   *)
(* (docs/ROADMAP.md:164).  Hours the clock shows twice are left out: only  *)
(* the first of the two opens or closes a window.                          *)
ShownOnce(t, z) == \A u \in t - Hour .. t + Hour : Local(u, z) = Local(t, z) => u = t

HoursHold ==
    \A l \in Range(schedule) : \A r \in l.restriction :
        LET w == Local(now, l.zone)
            time == w % DayLength
            On(day) == WeekdayOf(day) \in r.days
            open == IF CrossesMidnight(r)
                    THEN \/ On(DayOf(w)) /\ r.start <= time
                         \/ On(DayOf(w) - 1) /\ time < r.end
                    ELSE On(DayOf(w)) /\ r.start <= time /\ time < r.end
        IN  ShownOnce(now, l.zone) => (RestrictionCovers(r, now, l.zone) <=> open)

(* A calendar shows one span, of the user, or one gap at an instant; spans *)
(* that touch belong to different people.                                  *)
Shows(calendar, user, t) ==
    LET here == {sp \in calendar.spans : Within(sp, t)}
        holes == {g \in calendar.gaps : Within(g, t)}
    IN  /\ user = Nobody => here = {} /\ \E g \in holes : holes = {g}
        /\ user # Nobody => holes = {} /\ \E sp \in here : here = {sp} /\ sp.user = user
        /\ \A x, y \in calendar.spans : x.end = y.start => x.user # y.user

(* The calendar, which asks once for each stretch between two boundaries,  *)
(* agrees at every instant with asking then, across handoffs, edges of     *)
(* restrictions and overrides that come and go (docs/DECISIONS.md D6).     *)
CalendarAgrees == Shows(Calendar, At(schedule, OverridesInWindow(from, to), now), now)

(* The person a step pages is the one kerberon oncall shows for that time, *)
(* except at the very start of an override, which the lookup of a single   *)
(* instant misses.                                                         *)
PagesWhoIsShown ==
    \/ ResolveTarget = At(schedule, OverridesInWindow(from, to), now)
    \/ \E o \in Range(overrides) : o.starts = now

(* What people are shown is what happens: the calendar tells who would be   *)
(* asked at each instant, and that is who is paged.                         *)
CalendarIsTrue == CalendarAgrees /\ PagesWhoIsShown

(* A schedule that kerberon validate passes always finds somebody to page, *)
(* whatever overrides are made and withdrawn.                              *)
ValidatedIsCovered ==
    CheckCoverage(schedule, from, Horizon) = {} => ResolveTarget # Nobody

(* wallclock.go:168 calls the panic unreachable for a valid weekday.       *)
HandoffFound == \A l \in Rotating(schedule) : NextHandoff(l, now) # Panic

(* What the proofs of these properties ask of the zones: that no change of *)
(* the clock takes a wall clock out of its date, and that a repeated hour  *)
(* keeps to one.                                                           *)
KeepsDates(s) == \A i \in DOMAIN s : MovesAnHour(s[i].zone) /\ SkipsByDay(s[i].zone)
RepeatsDates(s) == \A i \in DOMAIN s : RepeatsByDay(s[i].zone)
ZonesKeepDates == \A s \in Schedules : KeepsDates(s)
ZonesRepeatByDay == \A s \in Schedules : RepeatsDates(s)
=============================================================================
