SPECIFICATION FairSpec
CONSTANTS
    Channel = {"ntfy", "email"}
    Threshold = 2
    Cooldown = 1
    Page <- MCThreePages
    FirstRung <- MCFirstRung
    ChannelOf <- MCThreeChannels
    Timed = {"ntfy"}
    Workers = 2
    MaxAttempts = 2
    Lease = 1
    BackoffSteps <- MCBackoff
    MaxFaults = 0
PROPERTY HangHoldsNobodyElse
