SPECIFICATION Spec
CONSTANTS
    TimerId = {1, 2, 3}
    Delay = {0, 2}
    Second = 1
    BatchSize = 2
    MaxIdleWait = 3
    RetryBackoff = 1
    MaxRetryBackoff = 2
    Poison = {}
    Prompt = FALSE
    MaxFaults = 0
INVARIANT EveryCommitWakes
