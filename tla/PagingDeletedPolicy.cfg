SPECIFICATION Spec
CONSTANTS
    Incident = {i1}
    GroupKey = {g}
    Fingerprint = {f1}
    Recipient = {r}
    TimerId = {t1, t2, t3, t4}
    PolicyName = {p}
    PolicyTable <- MCVanishing
    None = None
INVARIANT DeletedPolicyStillEscalates
