SPECIFICATION Spec
CONSTANTS
    Lower <- MCLower
    MaxAlerts = 3
    Sender <- MCSender
    Payloads <- MCPayloads
    Configs <- MCConfigs
    FirstConfig <- MCFirst
    TxChunk = 2
    MaxRequests <- MCTwoEach
    MaxUpsets = 2
INVARIANTS TypeOK GroupsKeptApart SenderIsHeard CountsAreTrue
CHECK_DEADLOCK FALSE
