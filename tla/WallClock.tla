----------------------------- MODULE WallClock -----------------------------
(***************************************************************************)
(* Local time, and the instants it stands for (internal/schedule/          *)
(* wallclock.go).  An instant is a number of half hours of UTC since       *)
(* anchorRef (schedule.go:17), midnight of Saturday 1 January 2000; a wall *)
(* clock is the same number read off a local calendar.  A zone changes its *)
(* offset at most once, at `turn': the code looks at one change at a time. *)
(* The handoff times, offsets and changes of real zones are whole half     *)
(* hours (Nepal and the Chatham Islands apart).                            *)
(***************************************************************************)
EXTENDS Integers, FiniteSetsExt

HalfHour == 1
Hour == 2
DayLength == 24 * Hour

Zone == [turn : Int, old : Int, new : Int]

Offset(t, z) == IF t < z.turn THEN z.old ELSE z.new
Local(t, z) == t + Offset(t, z)

DayOf(w) == w \div DayLength
Midnight(w) == DayLength * DayOf(w)
WeekdayOf(day) == (day + 6) % 7           \* 0 is Sunday, as in package time

(* time.Date of the library: an offset is guessed by reading the wall      *)
(* clock as if it were UTC, and looked up again if the guess was on the    *)
(* other side of the change.                                               *)
Date(w, z) ==
    LET guess == w - Offset(w, z)
    IN  IF Offset(guess, z) = Offset(w, z) THEN guess ELSE w - Offset(guess, z)

(* time.AddDate: the same time of day, n calendar days on.                 *)
AddDate(t, n, z) == Date(Local(t, z) + n * DayLength, z)

Matches(t, w, z) == Local(t, z) = w

(* The instant the offset changes on the day of w, if it does.  The code   *)
(* bisects; the first instant with the later offset is what it finds.      *)
TransitionOnDate(w, z) ==
    LET noon == Date(Midnight(w) + 12 * Hour, z)
        lo == noon - 12 * Hour
        hi == noon + 14 * Hour
    IN  IF Offset(lo, z) = Offset(hi, z)
        THEN {}
        ELSE {Min({t \in lo + 1 .. hi : Offset(t, z) = Offset(hi, z)})}

(* Mutant: a wall clock that is skipped is where time.Date puts it.        *)
ResolveNormalized(w, z) ==
    LET t == Date(w, z)
        earlier == {t - shift : shift \in {Hour, HalfHour}}
    IN  Min({t} \cup {e \in earlier : Matches(e, w, z)})

(* The one instant of a wall clock: the first of two occurrences, and the  *)
(* end of the gap if there is none.                                        *)
Resolve(w, z) ==
    LET t == Date(w, z)
        earlier == {t - shift : shift \in {Hour, HalfHour}}
    IN  IF Matches(t, w, z)
        THEN Min({t} \cup {e \in earlier : Matches(e, w, z)})
        ELSE LET turn == TransitionOnDate(w, z) IN Min(IF turn = {} THEN {t} ELSE turn)

(* A panic of the code ends the process, so no instant stands for it;      *)
(* loops that walk the handoffs end there.                                 *)
Panic == 10^9

(* The first of the wall clocks `at', on the local dates 0 to `span' days  *)
(* on that fall on one of the weekdays, that lies after the instant.       *)
FirstOf(after, span, weekdays, at, z) ==
    LET dates == {DayOf(Local(AddDate(after, i, z), z)) : i \in 0..span}
        chosen == {d \in dates : WeekdayOf(d) \in weekdays}
        candidates == {Resolve(d * DayLength + at, z) : d \in chosen}
        later == {c \in candidates : c > after}
    IN  IF later = {} THEN Panic ELSE Min(later)

NextWeekly(after, weekday, at, z) == FirstOf(after, 8, {weekday}, at, z)
NextDaily(after, at, z) == FirstOf(after, 2, 0..6, at, z)

(* What the two policies of wallclock.go:30-42 promise of a wall clock,    *)
(* said without an algorithm: the first instant at which the zone shows    *)
(* it, and if it never does, the instant the gap ends.                     *)
PolicyInstant(w, z) ==
    LET shown == {t \in {w - z.old, w - z.new} : Local(t, z) = w}
    IN  IF shown = {} THEN z.turn ELSE Min(shown)

(* Clocks change by an hour at most; the wall clocks a zone skips, and     *)
(* those the gap's length before and after, are of one date; and so are    *)
(* the wall clocks a zone shows twice.                                     *)
MovesAnHour(z) == z.old - z.new \in -Hour .. Hour

SkipsByDay(z) ==
    LET gap == z.new - z.old
    IN  gap > 0 => DayOf(z.turn + z.old - gap) = DayOf(z.turn + z.new + gap - 1)

RepeatsByDay(z) ==
    z.new < z.old => DayOf(z.turn + z.new) = DayOf(z.turn + z.old - 1)
=============================================================================
