SPECIFICATION Spec
CONSTANTS
    Incident = {i1, i2}
    GroupKey = {g1, g2}
    Fingerprint = {f1}
    Recipient = {r}
    TimerId = {t1, t2, t3, t4, t5, t6}
    PolicyName = {p}
    PolicyTable <- MCTables
    None = None
VIEW MCView
INVARIANTS TypeOK OneOpenIncident ChainIsSound NeverStranded LadderIsClimbed
PROPERTIES AckSilences SnapshotIsFrozen KeepsThePromise
