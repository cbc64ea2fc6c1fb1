----------------------------- MODULE MCSchedule -----------------------------
(* Zones and schedules for TLC.  Day 15 is a Sunday, day -6 one before the  *)
(* anchor; clocks change then.  In Havana the hour after midnight of Sunday *)
(* is skipped, in Nuuk the hour before it.                                  *)
EXTENDS Schedule

OnDay(day, hour) == day * DayLength + hour * Hour

Berlin == [turn |-> OnDay(15, 1), old |-> Hour, new |-> 2 * Hour]
Berlin1999 == [Berlin EXCEPT !.turn = OnDay(-6, 1)]
NewYork == [turn |-> OnDay(15, 6), old |-> -4 * Hour, new |-> -5 * Hour]
LordHowe == [turn |-> OnDay(15, 2) - 22, old |-> 22, new |-> 21]
Kolkata == [turn |-> 0, old |-> 11, new |-> 11]
Havana == [turn |-> OnDay(15, 5), old |-> -5 * Hour, new |-> -4 * Hour]
Nuuk == [turn |-> OnDay(15, 1), old |-> -2 * Hour, new |-> -Hour]

Band(rotation, day, time, people, zone, restriction) ==
    [rotation |-> rotation, handoffDay |-> day, handoffAt |-> time,
     participants |-> people, zone |-> zone, restriction |-> restriction]

Three == <<"ann", "bo", "cy">>
Hours(days, a, b) == {[days |-> days, start |-> a * Hour, end |-> b * Hour]}

MCSchedules == {
    <<Band("weekly", 0, 5, Three, Berlin, {})>>,
    <<Band("weekly", 0, 5, Three, Berlin1999, {})>>,
    <<Band("daily", 0, 3, Three, NewYork, {})>>,
    <<Band("", 0, 0, <<"ann">>, NewYork, Hours(1..5, 9, 17)),
      Band("daily", 0, 3, <<"bo", "cy">>, LordHowe, Hours({0, 5, 6}, 18, 9))>>,
    <<Band("daily", 0, 18, Three, Kolkata, Hours(0..6, 9, 2)),
      Band("weekly", 1, 18, Three, Berlin, {})>>}

MCCovers == {
    [user |-> "bo", starts |-> OnDay(14, 12), ends |-> OnDay(15, 12)],
    [user |-> "di", starts |-> OnDay(12, 0), ends |-> OnDay(15, 2)],
    [user |-> "ed", starts |-> OnDay(14, 6), ends |-> OnDay(14, 6)]}

MCStarts == {OnDay(12, 9) + 1, OnDay(13, 2), OnDay(-9, 20)}
MCHorizon == 5 * DayLength
MCWeekBefore == {OnDay(8, 0)}

MCHavana == {<<Band("weekly", 0, 0, Three, Havana, {})>>}
MCNuuk == {<<Band("daily", 0, 23 * Hour, Three, Nuuk, {})>>}
MCNoCovers == {}

(* A zone that falls back over midnight, as St. John's did until 2011: the *)
(* half hours on both sides of midnight come twice.                        *)
StJohns == [turn |-> OnDay(15, 3), old |-> -5, new |-> -7]

(* The schedules that are checked meet what the proofs ask of them.        *)
ASSUME ZonesAsProved ==
    /\ \A s \in MCSchedules : KeepsDates(s) /\ RepeatsDates(s)
    /\ \A s \in MCHavana \cup MCNuuk : ~KeepsDates(s)
    /\ MovesAnHour(StJohns) /\ SkipsByDay(StJohns) /\ ~RepeatsByDay(StJohns)
=============================================================================
