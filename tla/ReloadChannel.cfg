SPECIFICATION Spec
CONSTANTS
    File <- MCFilesWithMail
    Absent = Absent
    Alert <- MCAlerts
    Cover = {}
INVARIANT EveryChannelIsBuilt
