SPECIFICATION Spec
CONSTANTS
    Lower <- MCLower
    MaxAlerts = 3
    Sender <- MCSender
    Payloads <- MCPayloads
    Configs <- MCEdited
    FirstConfig <- MCFirst
    TxChunk = 2
    MaxRequests <- MCTwoEach
    MaxUpsets = 1
INVARIANT EditsStrandNothing
CHECK_DEADLOCK FALSE
