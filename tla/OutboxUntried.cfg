SPECIFICATION Spec
CONSTANTS
    Channel = {"ntfy"}
    Threshold = 1
    Cooldown = 2
    Page <- MCTwoPages
    FirstRung <- MCFirstRung
    ChannelOf <- MCOneChannel
    Timed = {"ntfy"}
    Workers = 1
    MaxAttempts = 2
    Lease = 2
    BackoffSteps <- MCBackoff
    MaxFaults = 0
INVARIANT DeadWasTried
