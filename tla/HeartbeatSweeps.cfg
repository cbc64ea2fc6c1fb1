SPECIFICATION FairSpec
CONSTANTS
    Switch = {backup, cron}
    Window = 3
    Interval = 2
    MaxFaults = 2
INVARIANTS NoticedInTime RaisedOnce
PROPERTY StoppedJobIsMarked
