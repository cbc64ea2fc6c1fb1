SPECIFICATION Spec
CONSTANTS
    TimerId = {1, 2, 3}
    Delay = {0}
    Second = 1
    BatchSize = 1
    MaxIdleWait = 3
    RetryBackoff = 1
    MaxRetryBackoff = 2
    Poison = {1}
    Prompt = TRUE
    MaxFaults = 0
INVARIANT BackoffBlocksNobody
