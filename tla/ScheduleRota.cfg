SPECIFICATION Spec
CONSTANTS
    Schedules <- MCSchedules
    Covers <- MCCovers
    MaxOverrides = 2
    Starts <- MCStarts
    Horizon <- MCHorizon
INVARIANTS RotaIsKept HoursHold CalendarIsTrue ValidatedIsCovered
