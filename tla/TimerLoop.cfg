SPECIFICATION FairSpec
CONSTANTS
    TimerId = {1, 2}
    Delay = {0, 3}
    Second = 2
    BatchSize = 2
    MaxIdleWait = 3
    RetryBackoff = 1
    MaxRetryBackoff = 2
    Poison = {2}
    Prompt = TRUE
    MaxFaults = 1
INVARIANTS TypeOK NoOversleep
PROPERTIES OldestFirst OnceUnlessCancelled EveryTimerSettles
