SPECIFICATION Spec
CONSTANTS
    Schedules <- MCNuuk
    Covers <- MCNoCovers
    MaxOverrides = 0
    Starts <- MCStarts
    Horizon <- MCHorizon
INVARIANTS TypeOK TurnsInOrder
