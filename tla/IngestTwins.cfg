SPECIFICATION Spec
CONSTANTS
    Lower <- MCLower
    MaxAlerts = 3
    Sender <- MCSender
    Payloads <- MCPayloads
    Configs <- MCTwins
    FirstConfig <- Twins
    TxChunk = 2
    MaxRequests <- MCTwoEach
    MaxUpsets = 1
INVARIANT RoutesKeptApart
CHECK_DEADLOCK FALSE
