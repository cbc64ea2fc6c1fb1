SPECIFICATION FairSpec
CONSTANTS
    Incident = {i1}
    GroupKey = {g}
    Fingerprint = {f1, f2}
    Recipient = {r}
    TimerId = {t1, t2, t3, t4}
    PolicyName = {p}
    PolicyTable <- MCTables
    None = None
INVARIANT GraceMatchesAlerts
PROPERTIES NoCloseWhileFiring EscalationEnds QuietIncidentCloses
