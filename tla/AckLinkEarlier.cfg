SPECIFICATION Spec
CONSTANTS
    User = {u1, u2}
    Request = {r1, r2, r3}
    LastRung = 1
    HardLimit = 4
    Paged <- MCPaged
PROPERTY EarlierLinkIsRefused
CHECK_DEADLOCK FALSE
