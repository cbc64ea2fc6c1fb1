SPECIFICATION Spec
CONSTANTS
    User = {u1, u2}
    Request = {r1, r2, r3}
    LastRung = 2
    HardLimit = 4
    Paged <- MCPaged
INVARIANTS TypeOK CurrentLinkIsAccepted
PROPERTY OneOwner
CHECK_DEADLOCK FALSE
