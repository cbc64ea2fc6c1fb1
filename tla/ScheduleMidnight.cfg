SPECIFICATION Spec
CONSTANTS
    Schedules <- MCHavana
    Covers <- MCNoCovers
    MaxOverrides = 0
    Starts <- MCWeekBefore
    Horizon <- MCHorizon
INVARIANT HandoffFound
