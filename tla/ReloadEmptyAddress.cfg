SPECIFICATION Spec
CONSTANTS
    File <- MCFilesWithEmpty
    Absent = Absent
    Alert <- MCAlerts
    Cover = {}
INVARIANT ValidatedMeansPaged
