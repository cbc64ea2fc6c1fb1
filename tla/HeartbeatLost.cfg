SPECIFICATION Spec
CONSTANTS
    Switch = {backup, cron}
    Window = 2
    Interval = 2
    MaxFaults = 1
INVARIANT MissingIsRaised
