SPECIFICATION Spec
CONSTANTS
    Channel = {"ntfy"}
    Threshold = 2
    Cooldown = 2
    Page <- MCTwoPages
    FirstRung <- MCFirstRung
    ChannelOf <- MCOneChannel
    Timed = {"ntfy"}
    Workers = 2
    MaxAttempts = 2
    Lease = 2
    BackoffSteps <- MCBackoff
    MaxFaults = 0
INVARIANT SingleProbe
